---------------------------- MODULE Spec2Model ----------------------------
(***************************************************************************)
(* SpaarBot backend: transaction categorization, recurring-payment         *)
(* detection, bank CSV import with duplicate filtering, and the handlers   *)
(* that persist their results.                                             *)
(*                                                                         *)
(* Text is modelled as a sequence of one-character strings, so that        *)
(* str.lower(), the "in" substring test, slicing and re.sub act on         *)
(* characters as in Python.  Money is modelled in cents; float() of an     *)
(* amount and float subtraction are IEEE-754 binary64, computed exactly    *)
(* on multi-limb integers.                                                 *)
(***************************************************************************)
EXTENDS Integers, Sequences, FiniteSets, TLC

\* Optional[T]: None is the empty tuple, a value x is the 1-tuple <<x>>
None == <<>>
Some(x) == <<x>>
IsNone(o) == o = <<>>
Get(o) == o[1]

\* ------------------------------------------------------------------ text

UpperLetters == <<"A","B","C","D","E","F","G","H","I","J","K","L","M","N","O","P","Q","R","S","T","U","V","W","X","Y","Z","Ä","Ö","Ü">>
LowerLetters == <<"a","b","c","d","e","f","g","h","i","j","k","l","m","n","o","p","q","r","s","t","u","v","w","x","y","z","ä","ö","ü">>
Digits == {"0","1","2","3","4","5","6","7","8","9"}
Whitespace == {" ", "\n", "\t"}

Range(s) == {s[i] : i \in 1..Len(s)}

\* Faulty variant: the text is not lower-cased
lower_unchanged(s) == s

\* str.lower(), character by character
LowerChar(c) ==
    IF \E i \in 1..Len(UpperLetters) : UpperLetters[i] = c
    THEN LowerLetters[CHOOSE i \in 1..Len(UpperLetters) : UpperLetters[i] = c]
    ELSE c
lower(s) == [i \in 1..Len(s) |-> LowerChar(s[i])]

\* Python's "sub in s" for strings
Contains(sub, s) ==
    \E i \in 0..(Len(s) - Len(sub)) : SubSeq(s, i + 1, i + Len(sub)) = sub

\* Python's s[:n]
Slice(s, n) == SubSeq(s, 1, IF Len(s) < n THEN Len(s) ELSE n)

\* str.strip(): leading and trailing whitespace removed
RECURSIVE LStrip(_)
LStrip(s) == IF s # <<>> /\ Head(s) \in Whitespace THEN LStrip(Tail(s)) ELSE s
RECURSIVE RStrip(_)
RStrip(s) ==
    IF s # <<>> /\ s[Len(s)] \in Whitespace THEN RStrip(SubSeq(s, 1, Len(s) - 1)) ELSE s
strip(s) == RStrip(LStrip(s))

\* \w of Python's re on str: letters, digits and the underscore
IsWordChar(c) ==
    c \in Range(UpperLetters) \cup Range(LowerLetters) \cup Digits \cup {"_"}

\* ------------------------------------------------- float (IEEE-754 binary64)
(***************************************************************************)
(* A non-negative double below 2^8 is held as the integer v * 2^60,        *)
(* written in limbs of 15 bits, least significant first (every double      *)
(* >= 0.01 is a multiple of 2^-59).  float(Decimal) and float subtraction  *)
(* round to 53 significant bits, ties to even.                             *)
(***************************************************************************)
LimbBase == 2^15

RECURSIVE MulSmallFrom(_, _, _, _)
MulSmallFrom(x, m, i, carry) ==
    IF i > Len(x) THEN <<>>
    ELSE LET v == x[i] * m + carry
         IN  <<v % LimbBase>> \o MulSmallFrom(x, m, i + 1, v \div LimbBase)
MulSmall(x, m) == MulSmallFrom(x, m, 1, 0)

RECURSIVE AddSmallFrom(_, _, _)
AddSmallFrom(x, i, carry) ==
    IF i > Len(x) THEN <<>>
    ELSE LET v == x[i] + carry
         IN  <<v % LimbBase>> \o AddSmallFrom(x, i + 1, v \div LimbBase)
AddSmall(x, c) == AddSmallFrom(x, 1, c)

RECURSIVE DivSmallFrom(_, _, _, _)
DivSmallFrom(x, m, i, r) ==
    IF i = 0 THEN [q |-> <<>>, r |-> r]
    ELSE LET cur  == r * LimbBase + x[i]
             rest == DivSmallFrom(x, m, i - 1, cur % m)
         IN  [q |-> rest.q \o <<cur \div m>>, r |-> rest.r]
DivSmall(x, m) == DivSmallFrom(x, m, Len(x), 0)

RECURSIVE SubFrom(_, _, _, _)
SubFrom(x, y, i, borrow) ==
    IF i > Len(x) THEN <<>>
    ELSE LET v == x[i] - y[i] - borrow
         IN  IF v < 0 THEN <<v + LimbBase>> \o SubFrom(x, y, i + 1, 1)
                      ELSE <<v>> \o SubFrom(x, y, i + 1, 0)
BigSub(x, y) == SubFrom(x, y, 1, 0)

RECURSIVE LessFrom(_, _, _)
LessFrom(x, y, i) ==
    IF i = 0 THEN FALSE
    ELSE IF x[i] # y[i] THEN x[i] < y[i] ELSE LessFrom(x, y, i - 1)
BigLess(x, y) == LessFrom(x, y, Len(x))

RECURSIVE Pow2(_)
Pow2(t) == IF t = 0 THEN 1 ELSE 2 * Pow2(t - 1)

RECURSIVE IntBits(_)
IntBits(v) == IF v = 0 THEN 0 ELSE 1 + IntBits(v \div 2)

RECURSIVE TopLimb(_, _)
TopLimb(x, i) == IF i = 0 THEN 0 ELSE IF x[i] # 0 THEN i ELSE TopLimb(x, i - 1)
BitLen(x) ==
    LET i == TopLimb(x, Len(x))
    IN  IF i = 0 THEN 0 ELSE 15 * (i - 1) + IntBits(x[i])

\* q + rnum/rden rounded to 53 significant bits, ties to even
Round53(q, rnum, rden) ==
    LET Rounded(t, d) ==
            LET odd == d.q[1] % 2 = 1
                up  == IF t = 0
                       THEN 2 * rnum > rden \/ (2 * rnum = rden /\ odd)
                       ELSE d.r > Pow2(t - 1) \/ (d.r = Pow2(t - 1) /\ (rnum > 0 \/ odd))
            IN  MulSmall(AddSmall(d.q, IF up THEN 1 ELSE 0), Pow2(t))
        Shifted(t) == Rounded(t, DivSmall(q, Pow2(t)))
        Excess(n) == IF n > 53 THEN n - 53 ELSE 0
    IN  Shifted(Excess(BitLen(q)))

\* float(Decimal("c/100")): the double nearest to c cents
float(cents) ==
    LET Nearest(d) == Round53(d.q, d.r, 100)
    IN  Nearest(DivSmall(<<0, 0, 0, 0, cents>>, 100))

\* abs(x - y) on doubles
FloatAbsDiff(x, y) ==
    Round53(IF BigLess(x, y) THEN BigSub(y, x) ELSE BigSub(x, y), 0, 1)

\* abs(float(a) - float(b)) < tol, with a, b and the literal tol in cents
FloatNear(a, b, tolCents) == BigLess(FloatAbsDiff(float(a), float(b)), float(tolCents))

\* ------------------------------------------------------------ results
\* What a call yields: a value, or the exception it raised (exc # "")
Ok(v) == [exc |-> "", value |-> v]
Raise(e) == [exc |-> e, value |-> None]

\* ------------------------------------------------------ category catalog
\* The categories table as seeded by the initial migration
Categories == <<
    [id |-> 1,  name |-> <<"f","o","o","d">>],
    [id |-> 2,  name |-> <<"t","r","a","n","s","p","o","r","t">>],
    [id |-> 3,  name |-> <<"s","h","o","p","p","i","n","g">>],
    [id |-> 4,  name |-> <<"e","n","t","e","r","t","a","i","n","m","e","n","t">>],
    [id |-> 5,  name |-> <<"h","e","a","l","t","h">>],
    [id |-> 6,  name |-> <<"b","i","l","l","s">>],
    [id |-> 7,  name |-> <<"o","t","h","e","r">>],
    [id |-> 8,  name |-> <<"s","a","l","a","r","y">>],
    [id |-> 9,  name |-> <<"f","r","e","e","l","a","n","c","e">>],
    [id |-> 10, name |-> <<"i","n","v","e","s","t","m","e","n","t">>],
    [id |-> 11, name |-> <<"g","i","f","t">>] >>

CategoryIds == {Categories[i].id : i \in 1..Len(Categories)}

\* select(Category).where(Category.name == name) ... scalar_one_or_none()
get_category_by_name(name) ==
    LET rows == {i \in 1..Len(Categories) : Categories[i].name = name}
    IN  IF rows = {} THEN Ok(None)
        ELSE IF Cardinality(rows) = 1
             THEN Ok(Some(Categories[CHOOSE i \in rows : TRUE]))
             ELSE Raise("MultipleResultsFound")

\* ------------------------------------------------- CategorizationService
quick_rules == <<
    [category |-> <<"f","o","o","d">>, keywords |-> <<
        <<"r","e","s","t","a","u","r","a","n","t">>, <<"c","a","f","e">>, <<"c","o","f","f","e","e">>, <<"p","i","z","z","a">>, <<"b","u","r","g","e","r">>, <<"m","c","d","o","n","a","l","d","s">>,
        <<"s","t","a","r","b","u","c","k","s">>, <<"k","f","c">>, <<"s","u","b","w","a","y">>, <<"e","s","s","e","n">>, <<"r","e","w","e">>, <<"e","d","e","k","a">>, <<"a","l","d","i">>,
        <<"l","i","d","l">>, <<"n","e","t","t","o">>, <<"k","a","u","f","l","a","n","d">>, <<"s","u","p","e","r","m","a","r","k","t">>, <<"b","a","k","e","r","y">>, <<"b","ä","c","k","e","r","e","i">> >>],
    [category |-> <<"t","r","a","n","s","p","o","r","t">>, keywords |-> <<
        <<"u","b","e","r">>, <<"t","a","x","i">>, <<"b","u","s">>, <<"t","r","a","i","n">>, <<"f","l","i","g","h","t">>, <<"b","v","g">>, <<"d","e","u","t","s","c","h","e"," ","b","a","h","n">>,
        <<"d","b">>, <<"m","v","g">>, <<"b","e","n","z","i","n">>, <<"t","a","n","k","s","t","e","l","l","e">>, <<"s","h","e","l","l">>, <<"a","r","a","l">>, <<"e","s","s","o">> >>],
    [category |-> <<"s","h","o","p","p","i","n","g">>, keywords |-> <<
        <<"a","m","a","z","o","n">>, <<"e","b","a","y">>, <<"z","a","l","a","n","d","o">>, <<"h","&","m">>, <<"z","a","r","a">>, <<"m","e","d","i","a","m","a","r","k","t">>,
        <<"s","a","t","u","r","n">>, <<"i","k","e","a">>, <<"d","m">>, <<"r","o","s","s","m","a","n","n">>, <<"m","ü","l","l","e","r">> >>],
    [category |-> <<"e","n","t","e","r","t","a","i","n","m","e","n","t">>, keywords |-> <<
        <<"s","p","o","t","i","f","y">>, <<"n","e","t","f","l","i","x">>, <<"d","i","s","n","e","y">>, <<"c","i","n","e","m","a">>, <<"k","i","n","o">>, <<"t","h","e","a","t","e","r">>,
        <<"c","o","n","c","e","r","t">>, <<"k","o","n","z","e","r","t">>, <<"s","t","e","a","m">>, <<"p","l","a","y","s","t","a","t","i","o","n">>, <<"x","b","o","x">>, <<"n","i","n","t","e","n","d","o">> >>],
    [category |-> <<"h","e","a","l","t","h">>, keywords |-> <<
        <<"a","p","o","t","h","e","k","e">>, <<"p","h","a","r","m","a","c","y">>, <<"a","r","z","t">>, <<"d","o","c","t","o","r">>, <<"h","o","s","p","i","t","a","l">>,
        <<"k","r","a","n","k","e","n","h","a","u","s">>, <<"z","a","h","n","a","r","z","t">>, <<"d","e","n","t","i","s","t">>, <<"f","i","t","n","e","s","s">>, <<"g","y","m">> >>],
    [category |-> <<"b","i","l","l","s">>, keywords |-> <<
        <<"s","t","r","o","m">>, <<"e","l","e","c","t","r","i","c","i","t","y">>, <<"g","a","s">>, <<"w","a","s","s","e","r">>, <<"w","a","t","e","r">>, <<"i","n","t","e","r","n","e","t">>,
        <<"t","e","l","e","k","o","m">>, <<"v","o","d","a","f","o","n","e">>, <<"o","2">>, <<"m","i","e","t","e">>, <<"r","e","n","t">>, <<"v","e","r","s","i","c","h","e","r","u","n","g">>,
        <<"i","n","s","u","r","a","n","c","e">> >>] >>

\* Faulty variant: the last category with a keyword in the description wins
quick_categorize_last(description) ==
    LET Last(hits) ==
            IF hits = {} THEN None
            ELSE Some(quick_rules[CHOOSE i \in hits : \A j \in hits : i >= j].category)
    IN  Last({i \in 1..Len(quick_rules) :
                 \E k \in 1..Len(quick_rules[i].keywords) :
                     Contains(quick_rules[i].keywords[k], lower(description))})

\* for category, keywords in quick_rules.items(): first category with a keyword
\* occurring in the lower-cased description
quick_categorize(description) ==
    LET First(hits) ==
            IF hits = {} THEN None
            ELSE Some(quick_rules[CHOOSE i \in hits : \A j \in hits : i <= j].category)
        Match(description_lower) ==
            First({i \in 1..Len(quick_rules) :
                      \E k \in 1..Len(quick_rules[i].keywords) :
                          Contains(quick_rules[i].keywords[k], description_lower)})
    IN  Match(lower(description))

\* Faulty variant: GroqService has the chat method _ai_categorize calls
GroqServiceAttrs_with_chat == {"client", "model", "chat_completion", "chat"}

\* The attributes of a GroqService object: __init__ sets client and model, the
\* class defines chat_completion; chat is a function of the module, not a method
GroqServiceAttrs == {"client", "model", "chat_completion"}

\* await self.groq_service.chat(prompt): reply is what the LLM service would
\* answer ([kind |-> "text", text |-> ...], "none" for no content, "error" or
\* "timeout" for a failed request)
groq_service_chat(reply) ==
    IF "chat" \notin GroqServiceAttrs THEN Raise("AttributeError")
    ELSE IF reply.kind = "text" THEN Ok(Some(reply.text))
    ELSE IF reply.kind = "none" THEN Ok(None)
    ELSE IF reply.kind = "timeout" THEN Raise("TimeoutError")
    ELSE Raise("Exception")

valid_categories == <<
    <<"f","o","o","d">>, <<"t","r","a","n","s","p","o","r","t">>, <<"s","h","o","p","p","i","n","g">>, <<"e","n","t","e","r","t","a","i","n","m","e","n","t">>,
    <<"h","e","a","l","t","h">>, <<"b","i","l","l","s">>, <<"s","a","l","a","r","y">>, <<"i","n","v","e","s","t","m","e","n","t">>, <<"o","t","h","e","r">> >>

\* Faulty variant: a reply that matches no allowed label yields no category
unmatched_category_none == None

\* What _ai_categorize returns for a reply that matches no allowed label
unmatched_category == Some(<<"o","t","h","e","r">>)

\* _ai_categorize, "Validiere Kategorie": the trimmed, lower-cased reply is
\* returned when it is an allowed label, else the first allowed label it
\* contains, else 'other'
validate_category(category) ==
    LET Partial(found) ==
            IF found # {}
            THEN Some(valid_categories[CHOOSE i \in found : \A j \in found : i <= j])
            ELSE unmatched_category
    IN  IF \E i \in 1..Len(valid_categories) : valid_categories[i] = category
        THEN Some(category)
        ELSE Partial({i \in 1..Len(valid_categories) :
                         Contains(valid_categories[i], category)})

\* The body of _ai_categorize's try block: the prompt is sent, the reply is
\* trimmed and lower-cased, then matched against the allowed labels
ai_categorize_try(description, amount, reply) ==
    LET Answered(response) ==
            IF response.exc # "" THEN response
            ELSE IF IsNone(response.value) THEN Raise("AttributeError")
            ELSE Ok(validate_category(lower(strip(Get(response.value)))))
    IN  Answered(groq_service_chat(reply))

\* Faulty variant: the except clause is missing, the failure reaches the caller
ai_categorize_propagating(description, amount, reply) ==
    ai_categorize_try(description, amount, reply)

\* _ai_categorize: try ... except Exception: return None
ai_categorize(description, amount, reply) ==
    LET Caught(r) == IF r.exc # "" THEN Ok(None) ELSE r
    IN  Caught(ai_categorize_try(description, amount, reply))

\* Faulty variant: the default category is looked up under the German catalog's name
default_category_name_german == <<"S","o","n","s","t","i","g","e","s">>

default_category_name == <<"o","t","h","e","r">>

\* categorize_transaction: 1. quick rules, 2. the LLM when use_ai, 3. 'other'
categorize_transaction(description, amount, use_ai, reply) ==
    LET Default(default_category) ==
            IF default_category.exc # "" THEN default_category
            ELSE IF IsNone(default_category.value) THEN Ok(None)
            ELSE Ok(Some(Get(default_category.value).id))
        AiLookup(category) ==
            IF category.exc # "" THEN category
            ELSE IF ~IsNone(category.value) THEN Ok(Some(Get(category.value).id))
            ELSE Default(get_category_by_name(default_category_name))
        Ai(ai_category) ==
            IF ai_category.exc # "" THEN ai_category
            ELSE IF IsNone(ai_category.value) \/ Get(ai_category.value) = <<>>
            THEN Default(get_category_by_name(default_category_name))
            ELSE AiLookup(get_category_by_name(Get(ai_category.value)))
        SecondStep ==
            IF use_ai THEN Ai(ai_categorize(description, amount, reply))
            ELSE Default(get_category_by_name(default_category_name))
        QuickLookup(category) ==
            IF category.exc # "" THEN category
            ELSE IF ~IsNone(category.value) THEN Ok(Some(Get(category.value).id))
            ELSE SecondStep
        Quick(quick_category) ==
            IF IsNone(quick_category) THEN SecondStep
            ELSE QuickLookup(get_category_by_name(Get(quick_category)))
    IN  Quick(quick_categorize(description))


\* categorize_transaction, step 1: the quick rules and the catalog lookup of
\* their category; Ok(Some(id)) when the function returns here, Ok(None) when
\* it goes on
quick_step(description) ==
    LET QuickLookup(category) ==
            IF category.exc # "" THEN category
            ELSE IF ~IsNone(category.value) THEN Ok(Some(Some(Get(category.value).id)))
            ELSE Ok(None)
        Quick(quick_category) ==
            IF IsNone(quick_category) THEN Ok(None)
            ELSE QuickLookup(get_category_by_name(Get(quick_category)))
    IN  Quick(quick_categorize(description))

\* Faulty variant: the LLM is asked whenever use_ai, whatever the quick rules found
step_after_quick_ai_first(quick, use_ai) ==
    IF use_ai THEN "ai"
    ELSE IF quick.exc # "" \/ ~IsNone(quick.value) THEN "done" ELSE "default"

\* categorize_transaction, what follows step 1: the return, the LLM ("ai")
\* when use_ai, else the default category
step_after_quick(quick, use_ai) ==
    IF quick.exc # "" \/ ~IsNone(quick.value) THEN "done"
    ELSE IF use_ai THEN "ai" ELSE "default"

\* The number of _ai_categorize calls one categorize_transaction call makes
ai_calls(description, use_ai) ==
    IF step_after_quick(quick_step(description), use_ai) = "ai" THEN 1 ELSE 0

\* await self.groq_service.chat(prompt) comes back: at once when the attribute
\* lookup fails, else when the service answers or fails; neither _ai_categorize
\* nor chat_completion sets a timeout, a "hang" reply is a service that never answers
groq_service_chat_returns(reply) ==
    "chat" \notin GroqServiceAttrs \/ reply.kind # "hang"

\* categorize_transaction, step 2: Ok(Some(id)) when the function returns here,
\* Ok(None) when it goes on to the default category
ai_step(description, amount, reply) ==
    LET AiLookup(category) ==
            IF category.exc # "" THEN category
            ELSE IF ~IsNone(category.value) THEN Ok(Some(Some(Get(category.value).id)))
            ELSE Ok(None)
        Ai(ai_category) ==
            IF ai_category.exc # "" THEN ai_category
            ELSE IF IsNone(ai_category.value) \/ Get(ai_category.value) = <<>>
            THEN Ok(None)
            ELSE AiLookup(get_category_by_name(Get(ai_category.value)))
    IN  Ai(ai_categorize(description, amount, reply))

\* categorize_transaction, step 3: the id of 'other', None when the catalog has none
default_step ==
    LET Default(default_category) ==
            IF default_category.exc # "" THEN default_category
            ELSE IF IsNone(default_category.value) THEN Ok(None)
            ELSE Ok(Some(Get(default_category.value).id))
    IN  Default(get_category_by_name(default_category_name))
\* ---------------------------------------------------- detect_subscription
known_subscriptions == <<
    [key |-> <<"s","p","o","t","i","f","y">>,         name |-> <<"S","p","o","t","i","f","y">>,              icon |-> "U+1F3B5"],
    [key |-> <<"n","e","t","f","l","i","x">>,         name |-> <<"N","e","t","f","l","i","x">>,              icon |-> "U+1F3AC"],
    [key |-> <<"a","m","a","z","o","n"," ","p","r","i","m","e">>,    name |-> <<"A","m","a","z","o","n"," ","P","r","i","m","e">>,         icon |-> "U+1F4E6"],
    [key |-> <<"d","i","s","n","e","y">>,          name |-> <<"D","i","s","n","e","y","+">>,              icon |-> "U+1F3F0"],
    [key |-> <<"a","p","p","l","e"," ","m","u","s","i","c">>,     name |-> <<"A","p","p","l","e"," ","M","u","s","i","c">>,          icon |-> "U+1F3B5"],
    [key |-> <<"y","o","u","t","u","b","e"," ","p","r","e","m","i","u","m">>, name |-> <<"Y","o","u","T","u","b","e"," ","P","r","e","m","i","u","m">>,      icon |-> "U+1F4FA"],
    [key |-> <<"a","d","o","b","e">>,           name |-> <<"A","d","o","b","e"," ","C","r","e","a","t","i","v","e"," ","C","l","o","u","d">>, icon |-> "U+1F3A8"],
    [key |-> <<"d","r","o","p","b","o","x">>,         name |-> <<"D","r","o","p","b","o","x">>,              icon |-> "U+2601 U+FE0F"],
    [key |-> <<"o","f","f","i","c","e"," ","3","6","5">>,      name |-> <<"M","i","c","r","o","s","o","f","t"," ","3","6","5">>,        icon |-> "U+1F4BC"] >>

\* re.sub(r'[0-9\W]+', ' ', s).strip().split(): the maximal runs of characters
\* that are neither digits nor non-word characters, as a set
RECURSIVE WordsFrom(_, _, _)
WordsFrom(s, i, cur) ==
    LET done == IF cur = <<>> THEN {} ELSE {cur}
    IN  IF i > Len(s) THEN done
        ELSE IF s[i] \in Digits \/ ~IsWordChar(s[i])
             THEN done \cup WordsFrom(s, i + 1, <<>>)
             ELSE WordsFrom(s, i + 1, Append(cur, s[i]))
words(s) == WordsFrom(lower(s), 1, <<>>)

\* Faulty variant: a similarity of exactly 0.6 counts as similar
similar_descriptions_inclusive(desc1, desc2) ==
    IF words(desc1) = {} \/ words(desc2) = {} THEN FALSE
    ELSE 10 * Cardinality(words(desc1) \cap words(desc2))
            >= 6 * Cardinality(words(desc1) \cup words(desc2))

\* _similar_descriptions: Jaccard similarity of the word sets > 0.6.  For the
\* set sizes that occur, the double intersection / union exceeds the double 0.6
\* exactly when 10 * intersection > 6 * union.
similar_descriptions(desc1, desc2) ==
    LET words1 == words(desc1)
        words2 == words(desc2)
        intersection == Cardinality(words1 \cap words2)
        union == Cardinality(words1 \cup words2)
    IN  IF words1 = {} \/ words2 = {} THEN FALSE
        ELSE 10 * intersection > 6 * union

amount_tolerance == 50

min_similar == 2

\* description and every history description are Optional[str]; amounts in
\* cents; confidence in hundredths
detect_subscription(description, amount, previous_transactions) ==
    LET Pattern(similar_transactions) ==
            IF Cardinality(similar_transactions) >= min_similar
            THEN Ok([is_subscription |-> TRUE, name |-> Get(description),
                     icon |-> "U+1F4B3", amount |-> amount,
                     confidence |-> 70, auto_detected |-> TRUE])
            ELSE Ok([is_subscription |-> FALSE, confidence |-> 0,
                     auto_detected |-> FALSE])
        History ==
            IF \E i \in 1..Len(previous_transactions) :
                   IsNone(previous_transactions[i].description)
            THEN Raise("AttributeError")
            ELSE Pattern({i \in 1..Len(previous_transactions) :
                    /\ similar_descriptions(Get(description),
                                            Get(previous_transactions[i].description))
                    /\ FloatNear(amount, previous_transactions[i].amount,
                                 amount_tolerance)})
        Known(hits) ==
            IF hits # {}
            THEN LET sub_info ==
                         known_subscriptions[CHOOSE i \in hits : \A j \in hits : i <= j]
                 IN  Ok([is_subscription |-> TRUE, name |-> sub_info.name,
                         icon |-> sub_info.icon, amount |-> amount,
                         confidence |-> 95, auto_detected |-> TRUE])
            ELSE History
        Lowered(description_lower) ==
            Known({i \in 1..Len(known_subscriptions) :
                      Contains(known_subscriptions[i].key, description_lower)})
    IN  IF IsNone(description) THEN Raise("AttributeError")
        ELSE Lowered(lower(Get(description)))

\* ------------------------------------------------------- BankCSVService
\* Faulty variant: the whole description is compared
prefix_length_whole == 10 * 50

prefix_length == 50

duplicate_tolerance == 1

\* _is_duplicate: the existing transactions are scanned in order; the first one
\* with the row's date and an amount within the tolerance whose description
\* prefix equals the row's makes the row a duplicate.  A stored description may
\* be NULL, and slicing None raises TypeError.
RECURSIVE is_duplicate_from(_, _, _)
is_duplicate_from(new_trans, existing_transactions, i) ==
    IF i > Len(existing_transactions) THEN Ok(FALSE)
    ELSE LET existing == existing_transactions[i]
         IN  IF /\ existing.transaction_date = new_trans.date
                /\ FloatNear(existing.amount, new_trans.amount, duplicate_tolerance)
             THEN IF IsNone(existing.description) THEN Raise("TypeError")
                  ELSE IF Slice(Get(existing.description), prefix_length)
                            = Slice(new_trans.description, prefix_length)
                       THEN Ok(TRUE)
                       ELSE is_duplicate_from(new_trans, existing_transactions, i + 1)
             ELSE is_duplicate_from(new_trans, existing_transactions, i + 1)
is_duplicate(new_trans, existing_transactions) ==
    is_duplicate_from(new_trans, existing_transactions, 1)

\* ---------------------------------------------------------------- bounds
MaxTx == 2          \* transactions rows ever stored
MaxRows == 2        \* rows of one parsed CSV
MaxSubs == 1        \* subscriptions rows ever stored
MaxDate == 7        \* dates are months 0..MaxDate; date.today() is MaxDate
MaxExisting == 2    \* existing transactions handed to _is_duplicate
MaxHistory == 2     \* history entries handed to detect_subscription
MaxCalls == 3       \* categorize_transaction calls on the service in a row
MaxChecks == 6      \* requests the rate limiter checks
MaxHandlers == 2    \* add_transaction handlers running at once
MaxRequests == 21   \* pipelines Redis executes for one client in the hour
MaxSynced == 4      \* transactions rows the PayPal sync may reach

\* ----------------------------------------------------------------- state
VARIABLES
    users,          \* users table: telegram_id -> row
    transactions,   \* transactions table, in insertion order
    subscriptions,  \* subscriptions table, in insertion order
    response,       \* what the last handler answered (and logged)
    call            \* the pending or finished call of a service function

vars == <<users, transactions, subscriptions, response, call>>

today == MaxDate

\* -------------------------------------------------------------------- crud
get_user_by_telegram_id(telegram_id) ==
    IF telegram_id \in DOMAIN users THEN Some(users[telegram_id]) ELSE None

\* Transaction(...) added and committed; Numeric(10, 2) holds whole cents
create_transaction(transaction) ==
    [telegram_id      |-> transaction.telegram_id,
     amount           |-> transaction.amount,
     description      |-> transaction.description,
     category_id      |-> transaction.category_id,
     transaction_type |-> transaction.transaction_type,
     transaction_date |-> IF IsNone(transaction.transaction_date) THEN today
                          ELSE Get(transaction.transaction_date)]

history_limit == 100

\* rows of s ordered by transaction_date descending (insertion order among equals)
RECURSIVE OrderByDateDesc(_)
OrderByDateDesc(s) ==
    IF s = <<>> THEN <<>>
    ELSE LET i == CHOOSE k \in 1..Len(s) :
                     /\ \A j \in 1..Len(s) : s[j].transaction_date <= s[k].transaction_date
                     /\ \A j \in 1..(k - 1) : s[j].transaction_date < s[k].transaction_date
         IN  <<s[i]>> \o OrderByDateDesc(SubSeq(s, 1, i - 1) \o SubSeq(s, i + 1, Len(s)))

\* get_user_transactions(db, telegram_id, limit=limit) over the table rows
get_user_transactions(rows, telegram_id, limit) ==
    LET mine(t) == t.telegram_id = telegram_id
    IN  Slice(OrderByDateDesc(SelectSeq(rows, mine)), limit)

\* The mapped columns of the Subscription model: it has telegram_id, no user_id
SubscriptionColumns ==
    {"id", "telegram_id", "service_name", "name", "icon", "amount", "currency",
     "billing_frequency", "billing_cycle", "next_payment_date",
     "next_billing_date", "status", "confirmed", "auto_detected", "created_at"}

\* Faulty variant: written against telegram_id, with confirmed=False left out, so that
\* the column default (True) applies
create_unconfirmed_subscription_default_flag(rows, user_id, name, amount, icon) ==
    IF \E i \in 1..Len(rows) :
           rows[i].telegram_id = user_id /\ rows[i].name = name /\ ~rows[i].confirmed
    THEN Ok(rows)
    ELSE Ok(Append(rows, [telegram_id |-> user_id, name |-> name,
                          confirmed |-> TRUE, auto_detected |-> TRUE]))

\* create_unconfirmed_subscription: yields the table after the call.  The query
\* is built from Subscription.user_id, an attribute the model does not have.
create_unconfirmed_subscription(rows, user_id, name, amount, icon) ==
    IF "user_id" \notin SubscriptionColumns THEN Raise("AttributeError")
    ELSE IF \E i \in 1..Len(rows) :
                rows[i].user_id = user_id /\ rows[i].name = name /\ ~rows[i].confirmed
         THEN Ok(rows)
         ELSE Ok(Append(rows, [user_id |-> user_id, name |-> name,
                               confirmed |-> FALSE, auto_detected |-> TRUE]))

\* ------------------------------------------- POST /transactions/ (add_transaction)
\* Faulty variant: a confidence of 0.7 is enough
confidence_threshold_inclusive == 70 - 1

\* subscription_info['confidence'] > 0.7, in hundredths
confidence_threshold == 70

\* Faulty variant: the LLM is allowed for every user
add_transaction_use_ai_everyone(user) == TRUE

\* use_ai=user.is_premium: the LLM only for premium users
add_transaction_use_ai(user) == user.is_premium

\* The handler's effect on the tables and its answer.  transaction is the
\* validated TransactionCreate; reply is what the LLM service would answer.
add_transaction(transaction, reply) ==
    LET AutoCategorized(user) ==
            /\ ~IsNone(user)
            /\ IsNone(transaction.category_id) \/ Get(transaction.category_id) = 0
            /\ ~IsNone(transaction.description)
        AiCalls(user) ==
            IF AutoCategorized(user)
            THEN ai_calls(Get(transaction.description), add_transaction_use_ai(Get(user)))
            ELSE 0
        HistoryOf(user, stored) ==
            IF ~IsNone(user) /\ Get(user).is_premium
                  /\ transaction.transaction_type = "expense"
            THEN Some(get_user_transactions(stored, transaction.telegram_id,
                                            history_limit))
            ELSE None
        Answer(stored, subs, detection, attempted, error) ==
            [transactions |-> stored, subscriptions |-> subs,
             response |->
                [op |-> "add_transaction", status |-> 200,
                 category_id |-> stored[Len(stored)].category_id,
                 \* "Auto-categorizing transaction", and the _ai_categorize calls made
                 auto_categorized |->
                     AutoCategorized(get_user_by_telegram_id(transaction.telegram_id)),
                 ai_calls |-> AiCalls(get_user_by_telegram_id(transaction.telegram_id)),
                 \* previous_transactions, when the detection runs
                 history |->
                     HistoryOf(get_user_by_telegram_id(transaction.telegram_id), stored),
                 \* what the handler logs about the detection
                 detection |-> detection,
                 create_attempted |-> attempted,
                 detection_error |-> error]]
        Failed(code) ==
            [transactions |-> transactions, subscriptions |-> subscriptions,
             response |-> [op |-> "add_transaction", status |-> code]]
        Created(stored, subscription_info, created) ==
            IF created.exc # ""
            THEN Answer(stored, subscriptions, Some(subscription_info), TRUE, created.exc)
            ELSE Answer(stored, created.value, Some(subscription_info), TRUE, "")
        Detected(user, stored, subscription_info) ==
            IF subscription_info.exc # ""
            THEN Answer(stored, subscriptions, None, FALSE, subscription_info.exc)
            ELSE IF /\ subscription_info.value.is_subscription
                    /\ subscription_info.value.confidence > confidence_threshold
            THEN Created(stored, subscription_info.value,
                         create_unconfirmed_subscription(
                             subscriptions, user.id, subscription_info.value.name,
                             subscription_info.value.amount,
                             subscription_info.value.icon))
            ELSE Answer(stored, subscriptions, Some(subscription_info.value), FALSE, "")
        History(user, stored, previous_transactions) ==
            Detected(user, stored,
                detect_subscription(transaction.description, transaction.amount,
                    [i \in 1..Len(previous_transactions) |->
                        [description |-> previous_transactions[i].description,
                         amount      |-> previous_transactions[i].amount,
                         date        |-> previous_transactions[i].transaction_date]]))
        Stored(user, stored) ==
            IF user.is_premium /\ transaction.transaction_type = "expense"
            THEN History(user, stored,
                     get_user_transactions(stored, transaction.telegram_id,
                                           history_limit))
            ELSE Answer(stored, subscriptions, None, FALSE, "")
        Create(user, category_id) ==
            Stored(user, Append(transactions,
                       create_transaction([transaction EXCEPT !.category_id = category_id])))
        Default(user, default_cat) ==
            IF default_cat.exc # "" THEN Failed(500)
            ELSE IF ~IsNone(default_cat.value)
            THEN Create(user, Some(Get(default_cat.value).id))
            ELSE Create(user, transaction.category_id)
        Categorized(user, category_id) ==
            IF category_id.exc # "" THEN Failed(500)
            ELSE IF ~IsNone(category_id.value) /\ Get(category_id.value) # 0
            THEN Create(user, category_id.value)
            ELSE Default(user, get_category_by_name(<<"o","t","h","e","r">>))
        Found(user) ==
            IF IsNone(user) THEN Failed(404)
            \* if not transaction.category_id: None and 0 are both falsy
            ELSE IF ~IsNone(transaction.category_id) /\ Get(transaction.category_id) # 0
            THEN Create(Get(user), transaction.category_id)
            \* description.lower() on None raises AttributeError
            ELSE IF IsNone(transaction.description) THEN Failed(500)
            ELSE Categorized(Get(user),
                     categorize_transaction(Get(transaction.description),
                                            transaction.amount, add_transaction_use_ai(Get(user)),
                                            reply))
    IN  Found(get_user_by_telegram_id(transaction.telegram_id))

\* ----------------------------------------- POST /subscriptions/ (create_subscription)
create_subscription(subscription) ==
    IF IsNone(get_user_by_telegram_id(subscription.telegram_id))
    THEN [subscriptions |-> subscriptions,
          response |-> [op |-> "create_subscription", status |-> 404]]
    ELSE [subscriptions |->
              Append(subscriptions,
                     [telegram_id |-> subscription.telegram_id,
                      name |-> subscription.name,
                      confirmed |-> TRUE, auto_detected |-> FALSE]),
          response |-> [op |-> "create_subscription", status |-> 200]]

\* --------------------- GET /paypal/subscription-success (handle_subscription_success)
\* details is what paypal_service.get_subscription_details answers; sent is
\* whether the Telegram notification goes out
handle_subscription_success(subscription_id, details, sent) ==
    LET Failed(code) ==
            [users |-> users,
             response |-> [op |-> "subscription_success", status |-> code]]
        telegram_id == Get(details.custom_id)
        taken == \E t \in DOMAIN users :
                    /\ t # telegram_id
                    /\ users[t].paypal_subscription_id = Some(subscription_id)
    IN  IF ~details.success THEN Failed(400)
        ELSE IF IsNone(details.custom_id) THEN Failed(400)
        ELSE IF telegram_id \notin DOMAIN users THEN Failed(404)
        ELSE IF taken THEN Failed(500)   \* paypal_subscription_id is unique
        ELSE [users |-> [users EXCEPT ![telegram_id] =
                            [@ EXCEPT !.is_premium = TRUE,
                                      !.paypal_subscription_id = Some(subscription_id)]],
              response |-> [op |-> "subscription_success",
                            status |-> IF sent THEN 200 ELSE 500]]

\* ---------------------------------------------- POST /bank/import-csv (import_csv)
six_months == 6

\* _get_existing_transactions: the user's rows of the last six months
get_existing_transactions(telegram_id) ==
    LET six_months_ago == today - six_months
        recent(t) == t.telegram_id = telegram_id /\ t.transaction_date >= six_months_ago
    IN  SelectSeq(transactions, recent)

\* The parameters categorize_transaction accepts, and the keywords the import
\* passes to it
categorize_transaction_params == {"description", "amount", "db", "use_ai"}
import_categorize_kwargs == {"description", "amount", "telegram_id", "db"}

\* The categorisation step of one imported row: the call, then
\* category_result.get('category_id') on what it returned (an int or None)
import_categorize(trans_data, reply) ==
    LET Got(category_result) ==
            IF category_result.exc # "" THEN category_result
            ELSE Raise("AttributeError")
    IN  IF ~(import_categorize_kwargs \subseteq categorize_transaction_params)
        THEN Raise("TypeError")
        ELSE Got(categorize_transaction(trans_data.description, trans_data.amount,
                                        TRUE, reply))

\* A row's result together with the calls its try block made, in order
WithCalls(r, calls) == [exc |-> r.exc, value |-> r.value, calls |-> calls]

\* Faulty variant: the row is categorized first, the duplicate check comes after
import_row_categorize_first(trans_data, existing_transactions, telegram_id, auto_categorize, reply) ==
    LET Checked(category_id, dup) ==
            IF category_id.exc # "" THEN Raise(category_id.exc)
            ELSE IF dup.exc # "" THEN Raise(dup.exc)
            ELSE IF dup.value THEN Ok(None)
            ELSE Ok(Some([telegram_id      |-> telegram_id,
                          amount           |-> trans_data.amount,
                          description      |-> Some(trans_data.description),
                          category_id      |-> category_id.value,
                          transaction_type |-> trans_data.transaction_type,
                          transaction_date |-> trans_data.date]))
    IN  IF auto_categorize
        THEN WithCalls(Checked(import_categorize(trans_data, reply),
                               is_duplicate(trans_data, existing_transactions)),
                       <<"categorize_transaction", "is_duplicate">>)
        ELSE WithCalls(Checked(Ok(None),
                               is_duplicate(trans_data, existing_transactions)),
                       <<"is_duplicate">>)

\* The body of the per-row try block: the row's outcome, the Transaction it adds
\* to the session when it is imported, and the calls it made
import_row(trans_data, existing_transactions, telegram_id, auto_categorize, reply) ==
    LET Add(category_id) ==
            IF category_id.exc # "" THEN Raise(category_id.exc)
            ELSE Ok(Some([telegram_id      |-> telegram_id,
                          amount           |-> trans_data.amount,
                          description      |-> Some(trans_data.description),
                          category_id      |-> category_id.value,
                          transaction_type |-> trans_data.transaction_type,
                          transaction_date |-> trans_data.date]))
        Checked(dup) ==
            IF dup.exc # "" THEN WithCalls(Raise(dup.exc), <<"is_duplicate">>)
            ELSE IF dup.value THEN WithCalls(Ok(None), <<"is_duplicate">>)
            ELSE IF auto_categorize
            THEN WithCalls(Add(import_categorize(trans_data, reply)),
                           <<"is_duplicate", "categorize_transaction">>)
            ELSE WithCalls(Add(Ok(None)), <<"is_duplicate">>)
    IN  Checked(is_duplicate(trans_data, existing_transactions))

ImportStart ==
    [imported |-> 0, duplicates_skipped |-> 0, errors |-> 0,
     outcomes |-> <<>>, added |-> <<>>, calls |-> <<>>]

\* Faulty variant: a row that raised is logged but not counted
import_count_error_uncounted(acc, r) ==
    IF r.exc # ""
    THEN [acc EXCEPT !.outcomes = Append(@, "error"), !.calls = Append(@, r.calls)]
    ELSE IF IsNone(r.value)
    THEN [acc EXCEPT !.duplicates_skipped = @ + 1,
                     !.outcomes = Append(@, "duplicate"),
                     !.calls = Append(@, r.calls)]
    ELSE [acc EXCEPT !.imported = @ + 1, !.outcomes = Append(@, "imported"),
                     !.added = Append(@, Get(r.value)),
                     !.calls = Append(@, r.calls)]

\* One row's outcome folded into the counters
import_count(acc, r) ==
    IF r.exc # ""
    THEN [acc EXCEPT !.errors = @ + 1, !.outcomes = Append(@, "error"),
                     !.calls = Append(@, r.calls)]
    ELSE IF IsNone(r.value)
    THEN [acc EXCEPT !.duplicates_skipped = @ + 1,
                     !.outcomes = Append(@, "duplicate"),
                     !.calls = Append(@, r.calls)]
    ELSE [acc EXCEPT !.imported = @ + 1, !.outcomes = Append(@, "imported"),
                     !.added = Append(@, Get(r.value)),
                     !.calls = Append(@, r.calls)]

\* Faulty variant: the loop without the per-row try/except; the first failing row
\* ends the import
RECURSIVE import_loop_unguarded(_, _, _, _, _, _, _)
import_loop_unguarded(rows, i, existing, telegram_id, auto_categorize, reply, acc) ==
    LET Row(r) ==
            IF r.exc # "" THEN Raise(r.exc)
            ELSE import_loop_unguarded(rows, i + 1, existing, telegram_id,
                                       auto_categorize, reply, import_count(acc, r))
    IN  IF i > Len(rows) THEN Ok(acc)
        ELSE Row(import_row(rows[i], existing, telegram_id, auto_categorize, reply))

\* Faulty variant: the rows added so far in the batch are checked against as well
RECURSIVE import_loop_seeing_batch(_, _, _, _, _, _, _)
import_loop_seeing_batch(rows, i, existing, telegram_id, auto_categorize, reply, acc) ==
    IF i > Len(rows) THEN Ok(acc)
    ELSE import_loop_seeing_batch(rows, i + 1, existing, telegram_id,
             auto_categorize, reply,
             import_count(acc, import_row(rows[i], existing \o acc.added,
                                          telegram_id, auto_categorize, reply)))

\* The for loop of _import_transactions from row i on: a row that raises is
\* counted as an error and the loop goes on
RECURSIVE import_loop(_, _, _, _, _, _, _)
import_loop(rows, i, existing, telegram_id, auto_categorize, reply, acc) ==
    IF i > Len(rows) THEN Ok(acc)
    ELSE import_loop(rows, i + 1, existing, telegram_id, auto_categorize, reply,
             import_count(acc, import_row(rows[i], existing, telegram_id,
                                          auto_categorize, reply)))

\* _import_transactions: existing rows are read once, before the loop
import_transactions(rows, telegram_id, auto_categorize, reply) ==
    import_loop(rows, 1, get_existing_transactions(telegram_id), telegram_id,
                auto_categorize, reply, ImportStart)

\* import_csv on the rows _parse_csv produced: the table after the commit and
\* the answer (outcomes is the per-row status the loop logs or reports)
import_csv(rows, telegram_id, auto_categorize, reply) ==
    LET Failed ==
            [transactions |-> transactions,
             response |-> [op |-> "import_csv", success |-> FALSE,
                           parsed |-> Len(rows)]]
        Done(result) ==
            IF result.exc # "" THEN Failed
            ELSE [transactions |-> transactions \o result.value.added,
                  response |-> [op |-> "import_csv", success |-> TRUE,
                                parsed |-> Len(rows),
                                rows |-> rows,
                                telegram_id |-> telegram_id,
                                auto_categorize |-> auto_categorize,
                                imported |-> result.value.imported,
                                duplicates_skipped |-> result.value.duplicates_skipped,
                                errors |-> result.value.errors,
                                outcomes |-> result.value.outcomes,
                                calls |-> result.value.calls,
                                added |-> result.value.added]]
    IN  IF rows = <<>> THEN Failed
        ELSE Done(import_transactions(rows, telegram_id, auto_categorize, reply))

\* ------------------------------------------------------------ the system
SeqsUpTo(S, n) == UNION {[1..k -> S] : k \in 0..n}

\* registered users (telegram_id -> row) and a telegram_id nobody registered
RegisteredUsers == {11}
UnknownUser == 99
UserId(telegram_id) == telegram_id - 10

\* what the LLM service may answer while a handler runs
HandlerReplies == {[kind |-> "text", text |-> <<"f","o","o","d">>], [kind |-> "timeout"]}

\* requests sent to POST /transactions/
Request(t, a, d, c, ty, dt) ==
    [telegram_id |-> t, amount |-> a, description |-> d, category_id |-> c,
     transaction_type |-> ty, transaction_date |-> dt]
Requests ==
    {Request(11, 1299, Some(<<"N","e","t","f","l","i","x">>), None, "expense", None),
     Request(11, 1000, Some(<<"V","e","r","e","i","n"," ","B","e","i","t","r","a","g">>), None, "expense", None),
     Request(11, 1000, None, Some(3), "expense", None),
     Request(11, 1000, None, None, "expense", None),
     Request(UnknownUser, 1000, Some(<<"V","e","r","e","i","n"," ","B","e","i","t","r","a","g">>), None, "expense", None),
     Request(11, 1000, Some(<<"V","e","r","e","i","n"," ","B","e","i","t","r","a","g">>), None, "income", None)}

\* rows _parse_csv may produce, and the parsed files built from them
CsvRow(dt, a, d) ==
    [date |-> dt, amount |-> a, description |-> d, transaction_type |-> "expense"]
CsvRows ==
    <<CsvRow(today, 1000, <<"V","e","r","e","i","n"," ","B","e","i","t","r","a","g">>),
      CsvRow(0, 1000, <<"V","e","r","e","i","n"," ","B","e","i","t","r","a","g">>)>>
CsvFiles ==
    {[i \in 1..Len(f) |-> CsvRows[f[i]]] :
        f \in {g \in SeqsUpTo(1..Len(CsvRows), MaxRows) :
                  \A i \in 1..(Len(g) - 1) : g[i] <= g[i + 1]}}

SubscriptionRequests == {[telegram_id |-> 11, name |-> <<"N","e","t","f","l","i","x">>]}

PayPalDetails ==
    {[success |-> FALSE, custom_id |-> None],
     [success |-> TRUE, custom_id |-> None],
     [success |-> TRUE, custom_id |-> Some(11)],
     [success |-> TRUE, custom_id |-> Some(UnknownUser)]}

NoCall == [fn |-> "none"]

\* The tables after the migrations have run and the users have registered
Idle ==
    /\ users = [t \in RegisteredUsers |->
                   [id |-> UserId(t), telegram_id |-> t, is_premium |-> FALSE,
                    paypal_subscription_id |-> None]]
    /\ transactions = <<>>
    /\ subscriptions = <<>>
    /\ response = [op |-> "none"]

Init ==
    /\ Idle
    /\ call = NoCall

AddTransaction ==
    /\ Len(transactions) < MaxTx
    /\ \E transaction \in Requests, reply \in HandlerReplies :
          LET Handled(r) == /\ transactions' = r.transactions
                            /\ subscriptions' = r.subscriptions
                            /\ response' = r.response
          IN  Handled(add_transaction(transaction, reply))
    /\ UNCHANGED <<users, call>>

ImportCsv ==
    \E rows \in CsvFiles, telegram_id \in RegisteredUsers, auto_categorize \in BOOLEAN :
        /\ Len(transactions) < MaxTx
        /\ \E reply \in IF auto_categorize THEN HandlerReplies ELSE {[kind |-> "none"]} :
              LET Handled(r) == /\ transactions' = r.transactions
                                /\ response' = r.response
              IN  Handled(import_csv(rows, telegram_id, auto_categorize, reply))
        /\ UNCHANGED <<users, subscriptions, call>>

CreateSubscription ==
    /\ Len(subscriptions) < MaxSubs
    /\ \E subscription \in SubscriptionRequests :
          LET Handled(r) == /\ subscriptions' = r.subscriptions
                            /\ response' = r.response
          IN  Handled(create_subscription(subscription))
    /\ UNCHANGED <<users, transactions, call>>

HandleSubscriptionSuccess ==
    /\ \E details \in PayPalDetails, sent \in BOOLEAN :
          LET Handled(r) == /\ users' = r.users
                            /\ response' = r.response
          IN  Handled(handle_subscription_success("I-1", details, sent))
    /\ UNCHANGED <<transactions, subscriptions, call>>

Next ==
    \/ AddTransaction
    \/ ImportCsv
    \/ CreateSubscription
    \/ HandleSubscriptionSuccess

Spec == Init /\ [][Next]_vars

\* ------------------------------------------- the service functions, called alone
\* call holds the arguments and, once the function has returned, its result.

\* categorize_transaction(description, amount, db, use_ai)
CategorizeDescriptions ==
    {<<"R","E","W","E"," ","M","a","r","k","t">>, <<"U","b","e","r"," ","B","V">>, <<"A","m","a","z","o","n"," ","P","r","i","m","e">>, <<"N","E","T","F","L","I","X",".","C","O","M">>,
     <<"A","p","o","t","h","e","k","e">>, <<"M","i","e","t","e">>, <<"V","e","r","e","i","n"," ","B","e","i","t","r","a","g">>, <<>>}
LlmReplies ==
    {[kind |-> "text", text |-> <<"f","o","o","d">>],
     [kind |-> "text", text |-> <<" ","F","o","o","d","\n">>],
     [kind |-> "text", text |-> <<"I"," ","t","h","i","n","k"," ","t","h","i","s"," ","i","s"," ","s","h","o","p","p","i","n","g",".">>],
     [kind |-> "text", text |-> <<"g","i","f","t">>],
     [kind |-> "text", text |-> <<"u","n","k","n","o","w","n">>],
     [kind |-> "none"], [kind |-> "timeout"], [kind |-> "error"]}

InitCategorize ==
    /\ Idle
    /\ call \in [fn : {"categorize_transaction"},
                 description : CategorizeDescriptions, amount : {1000},
                 use_ai : BOOLEAN, reply : LlmReplies, result : {None}]

Categorize ==
    /\ call.fn = "categorize_transaction"
    /\ IsNone(call.result)
    /\ call' = [call EXCEPT !.result =
                   Some(categorize_transaction(call.description, call.amount,
                                               call.use_ai, call.reply))]
    /\ UNCHANGED <<users, transactions, subscriptions, response>>

NextCategorize == Categorize

SpecCategorize == InitCategorize /\ [][NextCategorize]_vars

\* _is_duplicate(new_trans, existing_transactions)
Prefix50 == <<"S","E","P","A","-","L","a","s","t","s","c","h","r","i","f","t"," ","S","t","a","d","t","w","e","r","k","e"," ","M","u","s","t","e","r","s","t","a","d","t"," ","K","u","n","d","e","n","n","u","m","m">>
LongA == Prefix50 \o <<"e","r"," ","4","7","1","1">>
LongB == Prefix50 \o <<"e","r"," ","4","7","1","2">>

ExistingRows ==
    [transaction_date : {1, 2}, amount : {1000, 1001, 1002},
     description : {Some(LongA), Some(LongB), Some(<<"M","i","e","t","e">>), None}]
NewRows ==
    [date : {1}, amount : {1000}, description : {LongA, <<"M","i","e","t","e">>},
     transaction_type : {"expense"}]

InitDuplicate ==
    /\ Idle
    /\ call \in [fn : {"is_duplicate"}, new_trans : NewRows,
                 existing_transactions : SeqsUpTo(ExistingRows, MaxExisting),
                 result : {None}]

IsDuplicate ==
    /\ call.fn = "is_duplicate"
    /\ IsNone(call.result)
    /\ call' = [call EXCEPT !.result =
                   Some(is_duplicate(call.new_trans, call.existing_transactions))]
    /\ UNCHANGED <<users, transactions, subscriptions, response>>

NextDuplicate == IsDuplicate

SpecDuplicate == InitDuplicate /\ [][NextDuplicate]_vars

\* detect_subscription(description, amount, previous_transactions)
DetectDescriptions ==
    {Some(<<"N","E","T","F","L","I","X"," ","A","b","o">>), Some(<<"S","p","o","t","i","f","y"," ","s","t","a","t","t"," ","N","e","t","f","l","i","x">>),
     Some(<<"V","e","r","e","i","n"," ","B","e","i","t","r","a","g">>), Some(<<"M","i","e","t","e">>), None}
HistoryEntries ==
    [description : {Some(<<"V","e","r","e","i","n"," ","B","e","i","t","r","a","g"," ","1","1","/","2","0","2","4">>), Some(<<"M","i","e","t","e">>), None},
     amount : {20, 21}, date : {1}]

InitDetect ==
    /\ Idle
    /\ call \in [fn : {"detect_subscription"}, description : DetectDescriptions,
                 amount : {70, 71},
                 previous_transactions : SeqsUpTo(HistoryEntries, MaxHistory),
                 result : {None}]

DetectSubscription ==
    /\ call.fn = "detect_subscription"
    /\ IsNone(call.result)
    /\ call' = [call EXCEPT !.result =
                   Some(detect_subscription(call.description, call.amount,
                                            call.previous_transactions))]
    /\ UNCHANGED <<users, transactions, subscriptions, response>>

NextDetect == DetectSubscription

SpecDetect == InitDetect /\ [][NextDetect]_vars


\* categorize_transaction, step by step: pc is the coroutine's position, ai_invoked
\* counts the _ai_categorize calls it has made
StepDescriptions ==
    CategorizeDescriptions \cup {<<"N","e","t","f","l","i","x"," ","v","i","a"," ","A","m","a","z","o","n">>, <<"U","b","e","r"," ","E","a","t","s"," ","R","e","s","t","a","u","r","a","n","t">>}
StepReplies == LlmReplies \cup {[kind |-> "hang"]}

InitSteps ==
    /\ Idle
    /\ call \in [fn : {"categorize_steps"},
                 description : StepDescriptions, amount : {1000},
                 use_ai : BOOLEAN, reply : StepReplies,
                 pc : {"start"}, ai_invoked : {0}, result : {None}]

\* The steps' results for the calls of InitSteps, computed once
QuickSteps == [description \in StepDescriptions |-> quick_step(description)]
AiSteps ==
    [description \in StepDescriptions, reply \in StepReplies |->
        ai_step(description, 1000, reply)]

Returned(step) == IF step.exc # "" THEN step ELSE Ok(Get(step.value))

CallQuick ==
    /\ call.fn = "categorize_steps"
    /\ call.pc = "start"
    /\ LET After(quick, next) ==
               call' = [call EXCEPT !.pc = next,
                           !.result = IF next = "done" THEN Some(Returned(quick))
                                      ELSE None]
           Quick(quick) == After(quick, step_after_quick(quick, call.use_ai))
       IN  Quick(QuickSteps[call.description])
    /\ UNCHANGED <<users, transactions, subscriptions, response>>

CallAi ==
    /\ call.fn = "categorize_steps"
    /\ call.pc = "ai"
    /\ call' = [call EXCEPT !.pc = "awaiting", !.ai_invoked = @ + 1]
    /\ UNCHANGED <<users, transactions, subscriptions, response>>

AiReturns ==
    /\ call.fn = "categorize_steps"
    /\ call.pc = "awaiting"
    /\ groq_service_chat_returns(call.reply)
    /\ LET Ai(ai) ==
               IF ai.exc # "" \/ ~IsNone(ai.value)
               THEN call' = [call EXCEPT !.pc = "done", !.result = Some(Returned(ai))]
               ELSE call' = [call EXCEPT !.pc = "default"]
       IN  Ai(AiSteps[call.description, call.reply])
    /\ UNCHANGED <<users, transactions, subscriptions, response>>

CallDefault ==
    /\ call.fn = "categorize_steps"
    /\ call.pc = "default"
    /\ call' = [call EXCEPT !.pc = "done", !.result = Some(default_step)]
    /\ UNCHANGED <<users, transactions, subscriptions, response>>

NextSteps == CallQuick \/ CallAi \/ AiReturns \/ CallDefault

SpecSteps == InitSteps /\ [][NextSteps]_vars

\* The event loop runs a coroutine that can go on
SpecStepsFair == SpecSteps /\ WF_vars(NextSteps)

\* _ai_categorize from the LLM's answer on: the answer is trimmed, lower-cased
\* and matched against the allowed labels
ResponsePrefixes == {<<>>, <<" ">>, <<"T","h","e"," ">>}
ResponseCores ==
    {<<"f","o","o","d">>, <<"F","o","o","d">>, <<"B","I","L","L","S">>, <<"u","n","k","n","o","w","n">>, <<"I"," ","t","h","i","n","k"," ","t","h","i","s"," ","i","s"," ","s","h","o","p","p","i","n","g">>,
     <<"g","i","f","t">>, <<"f","r","e","e","l","a","n","c","e">>, <<"L","e","b","e","n","s","m","i","t","t","e","l">>, <<>>}
ResponseSuffixes == {<<>>, <<"\n">>, <<".">>}
ResponseTexts ==
    {p \o c \o s : p \in ResponsePrefixes, c \in ResponseCores, s \in ResponseSuffixes}

InitValidate ==
    /\ Idle
    /\ call \in [fn : {"validate_category"}, response : ResponseTexts, result : {None}]

ValidateCategory ==
    /\ call.fn = "validate_category"
    /\ IsNone(call.result)
    /\ call' = [call EXCEPT !.result =
                   Some(validate_category(lower(strip(call.response))))]
    /\ UNCHANGED <<users, transactions, subscriptions, response>>

NextValidate == ValidateCategory

SpecValidate == InitValidate /\ [][NextValidate]_vars

\* _quick_categorize(description)
QuickWords ==
    {<<"R","E","W","E">>, <<"U","b","e","r">>, <<"a","m","a","z","o","n">>, <<"N","E","T","F","L","I","X">>, <<"A","p","o","t","h","e","k","e">>, <<"M","i","e","t","e">>,
     <<"V","e","r","e","i","n">>, <<>>}
QuickDescriptions == {a \o <<" ">> \o b : a \in QuickWords, b \in QuickWords}

InitQuick ==
    /\ Idle
    /\ call \in [fn : {"quick_categorize"}, description : QuickDescriptions,
                 result : {None}]

QuickCategorize ==
    /\ call.fn = "quick_categorize"
    /\ IsNone(call.result)
    /\ call' = [call EXCEPT !.result = Some(quick_categorize(call.description))]
    /\ UNCHANGED <<users, transactions, subscriptions, response>>

NextQuick == QuickCategorize

SpecQuick == InitQuick /\ [][NextQuick]_vars

\* categorize_transaction called again and again on categorization_service, the
\* module's one CategorizationService; call.log holds the calls made so far
RepeatDescriptions == {<<"R","E","W","E"," ","M","a","r","k","t">>, <<"V","e","r","e","i","n"," ","B","e","i","t","r","a","g">>, <<"N","e","t","f","l","i","x"," ","v","i","a"," ","A","m","a","z","o","n">>}

\* Faulty variant: a description without keyword gets the category of the call before
service_categorize_remembered(log, description, amount, use_ai, reply) ==
    IF log # <<>> /\ IsNone(quick_categorize(description)) THEN log[Len(log)].result
    ELSE categorize_transaction(description, amount, use_ai, reply)

\* categorization_service.categorize_transaction(...): __init__ alone assigns the
\* object's attributes, the calls made before (log) leave nothing behind
service_categorize(log, description, amount, use_ai, reply) ==
    categorize_transaction(description, amount, use_ai, reply)

InitRepeat ==
    /\ Idle
    /\ call = [fn |-> "categorize_repeat", log |-> <<>>]

CategorizeAgain ==
    /\ call.fn = "categorize_repeat"
    /\ Len(call.log) < MaxCalls
    /\ \E description \in RepeatDescriptions, use_ai \in BOOLEAN, reply \in HandlerReplies :
          /\ use_ai \/ reply.kind = "timeout"
          /\ LET Called(result) ==
                     call' = [call EXCEPT !.log =
                                 Append(@, [description |-> description, amount |-> 1000,
                                            use_ai |-> use_ai, reply |-> reply,
                                            result |-> result])]
             IN  Called(service_categorize(call.log, description, 1000, use_ai, reply))
    /\ UNCHANGED <<users, transactions, subscriptions, response>>

NextRepeat == CategorizeAgain

SpecRepeat == InitRepeat /\ [][NextRepeat]_vars

\* ------------------------------------------------- middleware: RateLimiter
RateLimitConfig(per_minute, per_hour, burst) ==
    [requests_per_minute |-> per_minute, requests_per_hour |-> per_hour,
     burst_size |-> burst]

default_config == RateLimitConfig(60, 1000, 10)

endpoint_configs == <<
    [path |-> <<"/","a","p","i","/","v","1","/","a","i","/","q","u","e","r","y">>,        config |-> RateLimitConfig(10, 100, 2)],
    [path |-> <<"/","a","p","i","/","v","1","/","a","i","-","i","n","s","i","g","h","t","s">>,     config |-> RateLimitConfig(20, 200, 5)],
    [path |-> <<"/","a","p","i","/","v","1","/","b","a","n","k","/","i","m","p","o","r","t","-","c","s","v">>, config |-> RateLimitConfig(5, 20, 1)],
    [path |-> <<"/","a","p","i","/","v","1","/","t","r","a","n","s","a","c","t","i","o","n","s">>,    config |-> RateLimitConfig(100, 2000, 20)] >>

\* str.startswith
startswith(s, prefix) ==
    Len(prefix) <= Len(s) /\ SubSeq(s, 1, Len(prefix)) = prefix

\* get_config: the exact path, else the first configured path that is a prefix
get_config(path) ==
    LET First(found) ==
            IF found = {} THEN default_config
            ELSE endpoint_configs[CHOOSE i \in found : \A j \in found : i <= j].config
        Exact(found) ==
            IF found # {} THEN endpoint_configs[CHOOSE i \in found : TRUE].config
            ELSE First({i \in 1..Len(endpoint_configs) :
                           startswith(path, endpoint_configs[i].path)})
    IN  Exact({i \in 1..Len(endpoint_configs) : endpoint_configs[i].path = path})

\* forwarded_for.split(",")[0].strip()
first_forwarded(forwarded_for) ==
    LET UpTo(commas) ==
            IF commas = {} THEN forwarded_for
            ELSE SubSeq(forwarded_for, 1,
                        (CHOOSE i \in commas : \A j \in commas : i <= j) - 1)
    IN  strip(UpTo({i \in 1..Len(forwarded_for) : forwarded_for[i] = ","}))

\* get_identifier: the Telegram user id of the header, else the client's address
get_identifier(request) ==
    IF ~IsNone(request.telegram_id) /\ Get(request.telegram_id) # <<>>
    THEN <<"t","e","l","e","g","r","a","m",":">> \o Get(request.telegram_id)
    ELSE IF ~IsNone(request.forwarded_for) /\ Get(request.forwarded_for) # <<>>
    THEN <<"i","p",":">> \o first_forwarded(Get(request.forwarded_for))
    ELSE <<"i","p",":">> \o request.client_host

\* RateLimiter.connect: the client is kept when Redis answers the ping
connect(limiter, redis_up) ==
    IF ~limiter.enabled THEN limiter
    ELSE IF redis_up THEN [limiter EXCEPT !.redis_client = Some("redis")]
    ELSE [limiter EXCEPT !.redis_client = None]

\* Faulty variant: the counter is set to 1 instead of being incremented
incr_set(store, key) ==
    [k \in DOMAIN store \cup {key} |-> IF k = key THEN 1 ELSE store[k]]

\* INCR key on the Redis store; a key f"rate_limit:{identifier}:{n}" is the
\* pair of its identifier and its number
incr(store, key) ==
    [k \in DOMAIN store \cup {key} |->
        IF k = key THEN (IF key \in DOMAIN store THEN store[key] + 1 ELSE 1)
        ELSE store[k]]

\* Faulty variant: a request is refused when Redis cannot be asked
graceful_degradation_refusing == [allowed |-> FALSE, info |-> {}]

\* return True, {}: the request is allowed when Redis cannot be asked
graceful_degradation == [allowed |-> TRUE, info |-> {}]

\* RateLimiter.check_rate_limit: (allowed, info) and the Redis store afterwards.
\* outcome is how the pipeline ends: "ok", "error" (it raises, nothing written)
\* or "error_written" (it raises after Redis has executed it).  info, a dict, is
\* the set of its (key, value) pairs.
check_rate_limit(limiter, store, request, current_time, outcome) ==
    LET minute_key == <<get_identifier(request), current_time \div 60>>
        hour_key == <<get_identifier(request), current_time \div 3600>>
        Counted(config, written) ==
            IF outcome # "ok"
            THEN [allowed |-> graceful_degradation.allowed,
                  info |-> graceful_degradation.info,
                  store |-> IF outcome = "error_written" THEN written ELSE store]
            ELSE IF written[minute_key] > config.requests_per_minute
            THEN [allowed |-> FALSE,
                  info |-> {<<"limit", config.requests_per_minute>>,
                            <<"remaining", 0>>,
                            <<"reset", 60 - (current_time % 60)>>,
                            <<"retry_after", 60 - (current_time % 60)>>},
                  store |-> written]
            ELSE IF written[hour_key] > config.requests_per_hour
            THEN [allowed |-> FALSE,
                  info |-> {<<"limit", config.requests_per_hour>>,
                            <<"remaining", 0>>,
                            <<"reset", 3600 - (current_time % 3600)>>,
                            <<"retry_after", 3600 - (current_time % 3600)>>},
                  store |-> written]
            ELSE [allowed |-> TRUE,
                  info |-> {<<"limit", config.requests_per_minute>>,
                            <<"remaining",
                              config.requests_per_minute - written[minute_key]>>,
                            <<"reset", 60 - (current_time % 60)>>},
                  store |-> written]
    IN  IF ~limiter.enabled \/ IsNone(limiter.redis_client)
        THEN [allowed |-> graceful_degradation.allowed,
              info |-> graceful_degradation.info, store |-> store]
        ELSE Counted(get_config(request.path), incr(incr(store, minute_key), hour_key))


\* The limiter of the application, its Redis store and the requests it checks;
\* call.last holds the latest check: its arguments and what it returned
RateRequest(path, telegram_id, forwarded_for) ==
    [path |-> path, telegram_id |-> telegram_id, forwarded_for |-> forwarded_for,
     client_host |-> <<"1","0",".","0",".","0",".","1">>]
RateRequests ==
    {RateRequest(<<"/","a","p","i","/","v","1","/","b","a","n","k","/","i","m","p","o","r","t","-","c","s","v">>, Some(<<"1","1">>), None),
     RateRequest(<<"/","a","p","i","/","v","1","/","b","a","n","k","/","i","m","p","o","r","t","-","c","s","v","/","p","r","e","v","i","e","w">>, None,
                 Some(<<"2","0","3",".","0",".","1","1","3",".","7",","," ","1","0",".","0",".","0",".","2">>)),
     RateRequest(<<"/","a","p","i","/","v","1","/","u","s","e","r","s","/","1","1">>, Some(<<"1","1">>), None)}
CurrentTimes == {7325, 7379}
PipelineOutcomes == {"ok", "error", "error_written"}

InitRateLimit ==
    /\ Idle
    /\ call \in [fn : {"rate_limiter"},
                 limiter : [enabled : BOOLEAN, redis_client : {None}],
                 store : {<<>>}, checks : {0}, last : {None}]

Connect ==
    /\ call.fn = "rate_limiter"
    /\ \E redis_up \in BOOLEAN :
          call' = [call EXCEPT !.limiter = connect(@, redis_up)]
    /\ UNCHANGED <<users, transactions, subscriptions, response>>

CheckRateLimit ==
    /\ call.fn = "rate_limiter"
    /\ call.checks < MaxChecks
    /\ \E request \in RateRequests, current_time \in CurrentTimes,
          outcome \in PipelineOutcomes :
          LET Checked(r) ==
                  call' = [call EXCEPT
                              !.store = r.store,
                              !.checks = @ + 1,
                              !.last = Some([limiter |-> call.limiter,
                                             request |-> request,
                                             outcome |-> outcome,
                                             allowed |-> r.allowed,
                                             info |-> r.info])]
          IN  Checked(check_rate_limit(call.limiter, call.store, request,
                                       current_time, outcome))
    /\ UNCHANGED <<users, transactions, subscriptions, response>>

NextRateLimit == Connect \/ CheckRateLimit

SpecRateLimit == InitRateLimit /\ [][NextRateLimit]_vars

\* _similar_descriptions(desc1, desc2), called in both orders
SimilarDescriptions ==
    {<<"V","e","r","e","i","n"," ","B","e","i","t","r","a","g"," ","S","p","o","r","t"," ","J","a","n","u","a","r">>, <<"V","e","r","e","i","n"," ","B","e","i","t","r","a","g"," ","S","p","o","r","t"," ","F","e","b","r","u","a","r">>,
     <<"V","E","R","E","I","N","-","B","E","I","T","R","A","G"," ","2","0","2","4","/","0","1"," ","(","S","p","o","r","t",")">>, <<"V","e","r","e","i","n"," ","B","e","i","t","r","a","g">>,
     <<"v","e","r","e","i","n","_","b","e","i","t","r","a","g"," ","s","p","o","r","t">>, <<"M","i","e","t","e">>, <<"4","7","1","1"," ","!","!">>, <<>>}

InitSimilar ==
    /\ Idle
    /\ call \in [fn : {"similar_descriptions"}, desc1 : SimilarDescriptions,
                 desc2 : SimilarDescriptions, result : {None}]

SimilarDescriptionsCall ==
    /\ call.fn = "similar_descriptions"
    /\ IsNone(call.result)
    /\ call' = [call EXCEPT !.result =
                   Some([forward  |-> similar_descriptions(call.desc1, call.desc2),
                         backward |-> similar_descriptions(call.desc2, call.desc1)])]
    /\ UNCHANGED <<users, transactions, subscriptions, response>>

NextSimilar == SimilarDescriptionsCall

SpecSimilar == InitSimilar /\ [][NextSimilar]_vars

\* ------------------------------- add_transaction handlers running concurrently
\* Each handler runs on the event loop and gives way at its awaits that touch
\* the database: after create_transaction has committed, and after the history
\* was read.  create_unconfirmed_subscription evaluates Subscription.user_id
\* before its first await.
Handlers == 1..MaxHandlers

ConcurrentRequests ==
    {Request(11, 1299, Some(<<"N","e","t","f","l","i","x">>), Some(3), "expense", None),
     Request(11, 1299, Some(<<"N","e","t","f","l","i","x"," ","A","b","o">>), Some(3), "expense", None),
     Request(11, 999, Some(<<"S","p","o","t","i","f","y">>), Some(3), "expense", None),
     Request(11, 1000, Some(<<"V","e","r","e","i","n"," ","B","e","i","t","r","a","g">>), Some(3), "expense", None)}

\* the user has bought premium; no handler has been started
InitConcurrent ==
    /\ users = [t \in RegisteredUsers |->
                   [id |-> UserId(t), telegram_id |-> t, is_premium |-> TRUE,
                    paypal_subscription_id |-> Some("I-1")]]
    /\ transactions = <<>>
    /\ subscriptions = <<>>
    /\ response = [op |-> "none"]
    /\ call = [fn |-> "add_transaction",
               handlers |-> [p \in Handlers |-> [pc |-> "idle"]]]

\* handler p up to `new_transaction = await create_transaction(db, transaction)`
CreateTransaction(p) ==
    /\ call.fn = "add_transaction"
    /\ call.handlers[p].pc = "idle"
    /\ \E transaction \in ConcurrentRequests :
          /\ ~IsNone(get_user_by_telegram_id(transaction.telegram_id))
          /\ transactions' = Append(transactions, create_transaction(transaction))
          /\ call' = [call EXCEPT !.handlers[p] =
                         [pc |-> "created", transaction |-> transaction]]
    /\ UNCHANGED <<users, subscriptions, response>>

\* handler p from `previous_transactions = await get_user_transactions(...)` to
\* its return
DetectAndCreate(p) ==
    LET transaction == call.handlers[p].transaction
        user == Get(get_user_by_telegram_id(transaction.telegram_id))
        Finished(subs, info, attempted, error) ==
            /\ subscriptions' = subs
            /\ call' = [call EXCEPT !.handlers[p] =
                           [pc |-> "returned", transaction |-> transaction,
                            detection |-> info, create_attempted |-> attempted,
                            detection_error |-> error]]
        Created(info, created) ==
            IF created.exc # ""
            THEN Finished(subscriptions, Some(info), TRUE, created.exc)
            ELSE Finished(created.value, Some(info), TRUE, "")
        Detected(info) ==
            IF info.exc # "" THEN Finished(subscriptions, None, FALSE, info.exc)
            ELSE IF /\ info.value.is_subscription
                    /\ info.value.confidence > confidence_threshold
            THEN Created(info.value,
                         create_unconfirmed_subscription(
                             subscriptions, user.id, info.value.name,
                             info.value.amount, info.value.icon))
            ELSE Finished(subscriptions, Some(info.value), FALSE, "")
        History(previous_transactions) ==
            Detected(detect_subscription(transaction.description, transaction.amount,
                        [i \in 1..Len(previous_transactions) |->
                            [description |-> previous_transactions[i].description,
                             amount      |-> previous_transactions[i].amount,
                             date        |-> previous_transactions[i].transaction_date]]))
    IN  /\ call.fn = "add_transaction"
        /\ call.handlers[p].pc = "created"
        /\ IF user.is_premium /\ transaction.transaction_type = "expense"
           THEN History(get_user_transactions(transactions, transaction.telegram_id,
                                              history_limit))
           ELSE Finished(subscriptions, None, FALSE, "")
        /\ UNCHANGED <<users, transactions, response>>

NextConcurrent ==
    \E p \in Handlers : CreateTransaction(p) \/ DetectAndCreate(p)

SpecConcurrent == InitConcurrent /\ [][NextConcurrent]_vars

\* ------------------------------ the rate limiter over the minutes of one hour
\* Requests of one client to one endpoint while the clock advances.  A request's
\* only access to the shared counters is its pipeline (MULTI/EXEC), which Redis
\* executes as one step; what the request then returns depends on its own
\* results alone, so the order of the pipelines is the interleaving.
\* call.allowed_minute and call.allowed_hour count, per window, the requests
\* whose pipeline executed and that were allowed.
WindowRequest == RateRequest(<<"/","a","p","i","/","v","1","/","b","a","n","k","/","i","m","p","o","r","t","-","c","s","v">>, Some(<<"1","1">>), None)
WindowTimes == {7200, 7265, 7320, 7385, 7440}
WindowOutcomes == {"ok", "error"}

\* the limiter after a successful connect; nothing counted yet
InitWindow ==
    /\ Idle
    /\ call = [fn |-> "rate_window",
               limiter |-> [enabled |-> TRUE, redis_client |-> Some("redis")],
               store |-> <<>>, current_time |-> 7200, checks |-> 0,
               allowed_minute |-> <<>>, allowed_hour |-> <<>>, last |-> None]

\* time.time() moves on to the next minute
Tick ==
    /\ call.fn = "rate_window"
    /\ \E t \in WindowTimes :
          /\ t > call.current_time
          /\ \A u \in WindowTimes : u > call.current_time => t <= u
          /\ call' = [call EXCEPT !.current_time = t]
    /\ UNCHANGED <<users, transactions, subscriptions, response>>

\* one more in the tally of window n
Tally(tally, n) ==
    [k \in DOMAIN tally \cup {n} |->
        IF k = n THEN (IF n \in DOMAIN tally THEN tally[n] + 1 ELSE 1) ELSE tally[k]]

\* check_rate_limit(request) at the current time
CheckInWindow ==
    /\ call.fn = "rate_window"
    /\ call.checks < MaxRequests
    /\ \E outcome \in WindowOutcomes :
          LET counted(r) == outcome = "ok" /\ r.allowed
              Checked(r) ==
                  call' = [call EXCEPT
                      !.store = r.store,
                      !.checks = IF outcome = "ok" THEN @ + 1 ELSE @,
                      !.allowed_minute =
                          IF counted(r) THEN Tally(@, call.current_time \div 60) ELSE @,
                      !.allowed_hour =
                          IF counted(r) THEN Tally(@, call.current_time \div 3600) ELSE @,
                      !.last = Some([current_time |-> call.current_time,
                                     outcome |-> outcome,
                                     allowed |-> r.allowed,
                                     info |-> r.info])]
          IN  Checked(check_rate_limit(call.limiter, call.store, WindowRequest,
                                       call.current_time, outcome))
    /\ UNCHANGED <<users, transactions, subscriptions, response>>

NextWindow == Tick \/ CheckInWindow

SpecWindow == InitWindow /\ [][NextWindow]_vars

\* --------------------------------------------- PayPal: endpoints, webhooks, task
\* paypal_subscription_id is unique: the commit fails when another user has it
subscription_id_taken(telegram_id, subscription_id) ==
    \E t \in DOMAIN users :
        /\ t # telegram_id
        /\ users[t].paypal_subscription_id = Some(subscription_id)

\* Faulty variant: the user is downgraded before PayPal is asked
cancel_subscription_before_confirmation(request, cancel_result) ==
    LET Failed(table, code) ==
            [users |-> table,
             response |-> [op |-> "cancel_subscription", status |-> code,
                           telegram_id |-> request.telegram_id,
                           cancel_result |-> cancel_result]]
        downgraded ==
            [users EXCEPT ![request.telegram_id] = [@ EXCEPT !.is_premium = FALSE]]
    IN  IF request.telegram_id \notin DOMAIN users THEN Failed(users, 404)
        ELSE IF IsNone(users[request.telegram_id].paypal_subscription_id)
        THEN Failed(downgraded, 400)
        ELSE IF cancel_result # "success" THEN Failed(downgraded, 500)
        ELSE Failed(downgraded, 200)

\* POST /paypal/cancel-subscription.  cancel_result is how
\* paypal_service.cancel_subscription ends: "success", "failure" (success False)
\* or "raises" (an exception other than RequestException)
cancel_subscription(request, cancel_result) ==
    LET Answer(table, code) ==
            [users |-> table,
             response |-> [op |-> "cancel_subscription", status |-> code,
                           telegram_id |-> request.telegram_id,
                           cancel_result |-> cancel_result]]
    IN  IF request.telegram_id \notin DOMAIN users THEN Answer(users, 404)
        ELSE IF IsNone(users[request.telegram_id].paypal_subscription_id)
        THEN Answer(users, 400)
        ELSE IF cancel_result # "success" THEN Answer(users, 500)
        ELSE Answer([users EXCEPT ![request.telegram_id] =
                        [@ EXCEPT !.is_premium = FALSE]], 200)

\* Faulty variant: the webhook grants premium and leaves the subscription id alone
handle_subscription_activated_premium_only(webhook_event) ==
    IF IsNone(webhook_event.resource.custom_id) THEN users
    ELSE IF Get(webhook_event.resource.custom_id) \notin DOMAIN users THEN users
    ELSE [users EXCEPT ![Get(webhook_event.resource.custom_id)] =
             [@ EXCEPT !.is_premium = TRUE]]

\* handle_subscription_activated: the users table after the event
handle_subscription_activated(webhook_event) ==
    LET subscription_id == webhook_event.resource.id
        custom_id == webhook_event.resource.custom_id
    IN  IF IsNone(custom_id) THEN users
        ELSE IF Get(custom_id) \notin DOMAIN users THEN users
        \* the commit raises IntegrityError, which is logged
        ELSE IF subscription_id_taken(Get(custom_id), subscription_id) THEN users
        ELSE [users EXCEPT ![Get(custom_id)] =
                 [@ EXCEPT !.is_premium = TRUE,
                           !.paypal_subscription_id = Some(subscription_id)]]

\* handle_subscription_cancelled and handle_subscription_suspended: the user
\* found by the subscription id loses premium
handle_subscription_cancelled(webhook_event) ==
    [t \in DOMAIN users |->
        IF users[t].paypal_subscription_id = Some(webhook_event.resource.id)
        THEN [users[t] EXCEPT !.is_premium = FALSE]
        ELSE users[t]]

handle_subscription_suspended(webhook_event) ==
    [t \in DOMAIN users |->
        IF users[t].paypal_subscription_id = Some(webhook_event.resource.id)
        THEN [users[t] EXCEPT !.is_premium = FALSE]
        ELSE users[t]]

\* POST /paypal/webhook.  is_valid is what verify_webhook_signature answers
\* where it is asked (production with a webhook id configured)
paypal_webhook(webhook_event, is_valid) ==
    LET Answer(table, code) ==
            [users |-> table,
             response |-> [op |-> "paypal_webhook", status |-> code,
                           event_type |-> webhook_event.event_type]]
    IN  IF ~is_valid THEN Answer(users, 400)
        ELSE IF webhook_event.event_type = "BILLING.SUBSCRIPTION.ACTIVATED"
        THEN Answer(handle_subscription_activated(webhook_event), 200)
        ELSE IF webhook_event.event_type = "BILLING.SUBSCRIPTION.CANCELLED"
        THEN Answer(handle_subscription_cancelled(webhook_event), 200)
        ELSE IF webhook_event.event_type = "BILLING.SUBSCRIPTION.SUSPENDED"
        THEN Answer(handle_subscription_suspended(webhook_event), 200)
        ELSE Answer(users, 200)

\* check_premium_status.  details[t] is what PayPal answers about the
\* subscription of user t: "error" or the subscription's status
check_premium_status(details) ==
    LET selected == {t \in DOMAIN users :
                        /\ users[t].is_premium
                        /\ ~IsNone(users[t].paypal_subscription_id)}
        deactivated == {t \in selected :
                           details[t] \in {"CANCELLED", "SUSPENDED", "EXPIRED"}}
    IN  [users |-> [t \in DOMAIN users |->
                       IF t \in deactivated
                       THEN [users[t] EXCEPT !.is_premium = FALSE]
                       ELSE users[t]],
         response |-> [op |-> "check_premium_status",
                       updated |-> Cardinality(deactivated),
                       errors |-> 0]]

PayPalUsers == {11, 12}
SubscriptionIds == {"I-1", "I-2"}
CustomIds == {None, Some(11), Some(12), Some(UnknownUser)}
SubscriptionDetails == [success : BOOLEAN, custom_id : CustomIds]
CancelRequests == [telegram_id : PayPalUsers \cup {UnknownUser}]
CancelResults == {"success", "failure", "raises"}
WebhookEvents ==
    [event_type : {"BILLING.SUBSCRIPTION.ACTIVATED", "BILLING.SUBSCRIPTION.CANCELLED",
                   "BILLING.SUBSCRIPTION.SUSPENDED", "PAYMENT.SALE.COMPLETED"},
     resource : [id : SubscriptionIds, custom_id : CustomIds]]
SubscriptionStatuses == {"error", "ACTIVE", "CANCELLED", "SUSPENDED", "EXPIRED"}

\* two users have registered (users.py creates them with is_premium False)
InitPayPal ==
    /\ users = [t \in PayPalUsers |->
                   [id |-> UserId(t), telegram_id |-> t, is_premium |-> FALSE,
                    paypal_subscription_id |-> None]]
    /\ transactions = <<>>
    /\ subscriptions = <<>>
    /\ response = [op |-> "none"]
    /\ call = NoCall

SubscriptionSuccess ==
    /\ \E subscription_id \in SubscriptionIds, details \in SubscriptionDetails,
          sent \in BOOLEAN :
          LET Handled(r) == /\ users' = r.users
                            /\ response' = r.response
          IN  Handled(handle_subscription_success(subscription_id, details, sent))
    /\ UNCHANGED <<transactions, subscriptions, call>>

CancelSubscription ==
    /\ \E request \in CancelRequests, cancel_result \in CancelResults :
          LET Handled(r) == /\ users' = r.users
                            /\ response' = r.response
          IN  Handled(cancel_subscription(request, cancel_result))
    /\ UNCHANGED <<transactions, subscriptions, call>>

PayPalWebhook ==
    /\ \E webhook_event \in WebhookEvents, is_valid \in BOOLEAN :
          LET Handled(r) == /\ users' = r.users
                            /\ response' = r.response
          IN  Handled(paypal_webhook(webhook_event, is_valid))
    /\ UNCHANGED <<transactions, subscriptions, call>>

CheckPremiumStatus ==
    /\ \E details \in [PayPalUsers -> SubscriptionStatuses] :
          LET Handled(r) == /\ users' = r.users
                            /\ response' = r.response
          IN  Handled(check_premium_status(details))
    /\ UNCHANGED <<transactions, subscriptions, call>>

NextPayPal ==
    \/ SubscriptionSuccess
    \/ CancelSubscription
    \/ PayPalWebhook
    \/ CheckPremiumStatus

SpecPayPal == InitPayPal /\ [][NextPayPal]_vars

\* ------------------------------------------ POST /paypal/sync (sync_paypal_data)
\* The rows the duplicate query returns: the user's transactions whose
\* description contains transaction_id
sync_existing(rows, telegram_id, transaction_id) ==
    {i \in 1..Len(rows) :
        /\ rows[i].telegram_id = telegram_id
        /\ ~IsNone(rows[i].description)
        /\ Contains(transaction_id, Get(rows[i].description))}

\* Transaction(...) built from the transaction_info of a PayPal transaction
sync_transaction(telegram_id, info) ==
    [telegram_id      |-> telegram_id,
     amount           |-> IF info.amount < 0 THEN -info.amount ELSE info.amount,
     description      |-> Some(<<"U+1F4B3", " ">> \o info.transaction_subject),
     category_id      |-> Some(1),
     transaction_type |-> IF info.amount > 0 THEN "income" ELSE "expense",
     transaction_date |-> info.transaction_initiation_date]

\* The loop over transaction_details from entry i on: the rows added.  With
\* autoflush the pending rows are seen by the query; scalar_one_or_none raises
\* on more than one row, and the entry is passed over.
RECURSIVE sync_loop(_, _, _, _, _, _)
sync_loop(transaction_details, i, stored, added, telegram_id, autoflush) ==
    LET Step(existing) ==
            IF existing = {}
            THEN sync_loop(transaction_details, i + 1, stored,
                           Append(added, sync_transaction(telegram_id,
                                                          transaction_details[i])),
                           telegram_id, autoflush)
            ELSE sync_loop(transaction_details, i + 1, stored, added,
                           telegram_id, autoflush)
    IN  IF i > Len(transaction_details) THEN added
        ELSE Step(sync_existing(IF autoflush THEN stored \o added ELSE stored,
                                telegram_id,
                                transaction_details[i].transaction_id))

\* sync_paypal_data, its part on the transactions table.  fetched is how the
\* request for the transaction report ends
sync_paypal_data(telegram_id, fetched, transaction_details, autoflush) ==
    LET Answer(added) ==
            [transactions |-> transactions \o added,
             response |-> [op |-> "sync_paypal_data", status |-> 200,
                           success |-> TRUE, telegram_id |-> telegram_id,
                           fetched |-> fetched,
                           transaction_details |-> transaction_details,
                           transactions_count |-> Len(added)]]
        Connected(user) ==
            /\ ~IsNone(user)
            /\ ~IsNone(Get(user).paypal_id)
            /\ Get(Get(user).paypal_id) # <<>>
    IN  IF ~Connected(get_user_by_telegram_id(telegram_id))
        THEN [transactions |-> transactions,
              response |-> [op |-> "sync_paypal_data", status |-> 404,
                            success |-> FALSE, telegram_id |-> telegram_id,
                            fetched |-> fetched,
                            transaction_details |-> transaction_details,
                            transactions_count |-> 0]]
        ELSE IF fetched # "ok" THEN Answer(<<>>)
        ELSE Answer(sync_loop(transaction_details, 1, transactions, <<>>,
                              telegram_id, autoflush))

\* transaction_info of the PayPal report: a payment, a payment whose subject
\* quotes its transaction id, and an entry without transaction id
PayPalTransactionInfo(id, subject, a, dt) ==
    [transaction_id |-> id, transaction_subject |-> subject, amount |-> a,
     transaction_initiation_date |-> dt]
PayPalTransactions ==
    {PayPalTransactionInfo(<<"5","T","Y","0","5","0","1","3","R","G">>, <<"N","e","t","f","l","i","x">>, -1299, today),
     PayPalTransactionInfo(<<"8","A","B","1","1","7","4","2","K","X">>, <<"O","r","d","e","r"," ","8","A","B","1","1","7","4","2","K","X">>, 2500, today),
     PayPalTransactionInfo(<<>>, <<"G","u","t","s","c","h","r","i","f","t">>, 500, 0)}
PayPalReports ==
    {r \in SeqsUpTo(PayPalTransactions, 2) :
        \A i, j \in 1..Len(r) : i < j => r[i] # r[j]}
SyncUsers == {11, 12}

\* user 11 has connected PayPal, user 12 has not
InitSync ==
    /\ users = [t \in SyncUsers |->
                   [id |-> UserId(t), telegram_id |-> t, is_premium |-> FALSE,
                    paypal_subscription_id |-> None,
                    paypal_id |-> IF t = 11 THEN Some(<<"u","@","e","x","a","m","p","l","e",".","o","r","g">>) ELSE None]]
    /\ transactions = <<>>
    /\ subscriptions = <<>>
    /\ response = [op |-> "none"]
    /\ call = NoCall

SyncPayPalData ==
    /\ \E telegram_id \in SyncUsers \cup {UnknownUser}, fetched \in {"ok", "error"},
          transaction_details \in PayPalReports, autoflush \in BOOLEAN :
          /\ Len(transactions) + Len(transaction_details) <= MaxSynced
          /\ LET Handled(r) == /\ transactions' = r.transactions
                               /\ response' = r.response
             IN  Handled(sync_paypal_data(telegram_id, fetched, transaction_details,
                                          autoflush))
    /\ UNCHANGED <<users, subscriptions, call>>

NextSync == SyncPayPalData

SpecSync == InitSync /\ [][NextSync]_vars
\* -------------------------------------------------------------- properties
Abs(n) == IF n < 0 THEN -n ELSE n

\* the transactions an import response reports as added are the last rows of
\* the table; StoredBefore(r) is the table as it was before that import
StoredBefore(r) == SubSeq(transactions, 1, Len(transactions) - Len(r.added))

\* C1: after any sequence of add_transaction and import_csv operations every
\* persisted transaction has a category (category_id is not NULL).
C1_EveryTransactionHasCategory ==
    \A i \in 1..Len(transactions) : ~IsNone(transactions[i].category_id)

\* C2: categorize_transaction returns the id of a category of the catalog for
\* every description and amount; it never returns None and never raises.
C2_CategorizeReturnsCatalogId ==
    (call.fn = "categorize_transaction" /\ ~IsNone(call.result)) =>
        /\ Get(call.result).exc = ""
        /\ ~IsNone(Get(call.result).value)
        /\ Get(Get(call.result).value) \in CategoryIds

\* a finished call that no quick rule decided and that fell back to 'other'
C2_Witness ==
    /\ call.fn = "categorize_transaction"
    /\ ~IsNone(call.result)
    /\ ~call.use_ai
    /\ IsNone(quick_categorize(call.description))
    /\ Get(call.result) = Ok(Some(7))

\* C3: when the LLM step is consulted (use_ai, no quick rule matches) and fails
\* (time-out, request error, no content, missing method), the failure does not
\* reach the caller: categorize_transaction returns the id of 'other'.
C3_AiFailureYieldsOther ==
    (/\ call.fn = "categorize_transaction"
     /\ ~IsNone(call.result)
     /\ call.use_ai
     /\ IsNone(quick_categorize(call.description))
     /\ ai_categorize_try(call.description, call.amount, call.reply).exc # "") =>
        /\ Get(call.result).exc = ""
        /\ Get(call.result).value =
              Some(Get(get_category_by_name(<<"o","t","h","e","r">>).value).id)

\* a finished call whose LLM request timed out
C3_Witness ==
    /\ call.fn = "categorize_transaction"
    /\ ~IsNone(call.result)
    /\ call.use_ai
    /\ call.reply.kind = "timeout"
    /\ call.description = <<"V","e","r","e","i","n"," ","B","e","i","t","r","a","g">>
    /\ Get(call.result).exc = ""

\* the claimed duplicate relation on a candidate row and a stored transaction:
\* same date, amounts less than one cent apart, same first 50 characters
ClaimedMatch(new_trans, existing) ==
    /\ existing.transaction_date = new_trans.date
    /\ Abs(existing.amount - new_trans.amount) < 1
    /\ ~IsNone(existing.description)
    /\ Slice(Get(existing.description), 50) = Slice(new_trans.description, 50)

\* C4: _is_duplicate returns true exactly when some existing transaction has
\* the candidate's date, an amount whose absolute difference is strictly less
\* than 0.01, and the same first 50 characters of description; false for an
\* empty list.
C4_DuplicateExactlyWhenClaimed ==
    (call.fn = "is_duplicate" /\ ~IsNone(call.result)) =>
        Get(call.result) =
            Ok(\E i \in 1..Len(call.existing_transactions) :
                   ClaimedMatch(call.new_trans, call.existing_transactions[i]))

\* C5: importing rows that are already stored imports none of them: an import
\* never persists a row that equals (date, amount, description) a transaction
\* the user already had, whatever the row's date.
C5_ReimportAddsNothing ==
    (response.op = "import_csv" /\ response.success) =>
        \A k \in 1..Len(response.added) :
            \A j \in 1..Len(StoredBefore(response)) :
                ~(/\ transactions[j].telegram_id = response.added[k].telegram_id
                  /\ transactions[j].transaction_date = response.added[k].transaction_date
                  /\ transactions[j].amount = response.added[k].amount
                  /\ transactions[j].description = response.added[k].description)

\* candidate and stored transaction agree on date and amount, their
\* descriptions agree on the first 50 characters and differ after them
DiffersAfterPrefix(new_trans, existing) ==
    /\ existing.transaction_date = new_trans.date
    /\ existing.amount = new_trans.amount
    /\ ~IsNone(existing.description)
    /\ Get(existing.description) # new_trans.description
    /\ Slice(Get(existing.description), 50) = Slice(new_trans.description, 50)

ClaimedSimilar(description, amount, previous_transactions) ==
    {i \in 1..Len(previous_transactions) :
        /\ Abs(amount - previous_transactions[i].amount) < 50
        /\ ~IsNone(previous_transactions[i].description)
        /\ similar_descriptions(description,
                                Get(previous_transactions[i].description))}

\* key occurs in text when the case of letters is ignored
ContainsIgnoringCase(key, text) ==
    Contains(key, [k \in 1..Len(text) |-> LowerChar(text[k])])

\* C7: for a description without brand keyword, detect_subscription answers
\* is_subscription true with confidence 0.7 exactly when at least two history
\* entries are within less than 0.50 of the amount and similar in description,
\* and is_subscription false with confidence 0.0 otherwise.
C7_PatternExactlyWhenTwoSimilar ==
    (/\ call.fn = "detect_subscription"
     /\ ~IsNone(call.result)
     /\ ~IsNone(call.description)
     /\ \A i \in 1..Len(known_subscriptions) :
            ~ContainsIgnoringCase(known_subscriptions[i].key, Get(call.description))) =>
        /\ Get(call.result).exc = ""
        /\ IF Cardinality(ClaimedSimilar(Get(call.description), call.amount,
                                         call.previous_transactions)) >= 2
           THEN /\ Get(call.result).value.is_subscription
                /\ Get(call.result).value.confidence = 70
           ELSE /\ ~Get(call.result).value.is_subscription
                /\ Get(call.result).value.confidence = 0

\* C8: a description containing a brand keyword (case-insensitively) yields
\* is_subscription true, confidence 0.95 and the canonical name and icon of a
\* brand whose keyword it contains, for any amount and history.
C8_BrandFastPath ==
    (/\ call.fn = "detect_subscription"
     /\ ~IsNone(call.result)
     /\ ~IsNone(call.description)
     /\ \E i \in 1..Len(known_subscriptions) :
            ContainsIgnoringCase(known_subscriptions[i].key, Get(call.description))) =>
        /\ Get(call.result).exc = ""
        /\ Get(call.result).value.is_subscription
        /\ Get(call.result).value.confidence = 95
        /\ \E i \in 1..Len(known_subscriptions) :
              /\ ContainsIgnoringCase(known_subscriptions[i].key, Get(call.description))
              /\ Get(call.result).value.name = known_subscriptions[i].name
              /\ Get(call.result).value.icon = known_subscriptions[i].icon

\* an upper-case brand name, with a history entry that has no description
C8_Witness ==
    /\ call.fn = "detect_subscription"
    /\ ~IsNone(call.result)
    /\ call.description = Some(<<"N","E","T","F","L","I","X"," ","A","b","o">>)
    /\ \E i \in 1..Len(call.previous_transactions) :
          IsNone(call.previous_transactions[i].description)
    /\ Get(call.result).exc = ""
    /\ Get(call.result).value.name = <<"N","e","t","f","l","i","x">>
    /\ Get(call.result).value.confidence = 95

CountOutcome(outcomes, o) == Cardinality({i \in 1..Len(outcomes) : outcomes[i] = o})

\* C10: in a batch import the failure of a row is confined to the row: every
\* row of the batch is processed, the failed rows are counted as errors, and
\* the rows that succeeded are committed.
C10_RowFailureIsolated ==
    (response.op = "import_csv" /\ response.parsed > 0) =>
        /\ response.success
        /\ Len(response.outcomes) = response.parsed
        /\ response.errors = CountOutcome(response.outcomes, "error")
        /\ response.imported = CountOutcome(response.outcomes, "imported")
        /\ Len(response.added) = response.imported
        /\ Len(transactions) >= Len(response.added)
        /\ SubSeq(transactions, Len(transactions) - Len(response.added) + 1,
                  Len(transactions)) = response.added

\* a row failed and a later row of the same batch was imported and committed
C10_Witness ==
    /\ response.op = "import_csv"
    /\ response.success
    /\ \E i, j \in 1..Len(response.outcomes) :
          /\ i < j
          /\ response.outcomes[i] = "error"
          /\ response.outcomes[j] = "imported"
    /\ Len(transactions) >= Len(response.added)
    /\ SubSeq(transactions, Len(transactions) - Len(response.added) + 1,
              Len(transactions)) = response.added


MatchedRules(description) ==
    {i \in 1..Len(quick_rules) :
        \E k \in 1..Len(quick_rules[i].keywords) :
            ContainsIgnoringCase(quick_rules[i].keywords[k], description)}

\* The id of the catalog's category of that name
CatalogId(name) ==
    Categories[CHOOSE i \in 1..Len(Categories) : Categories[i].name = name].id

\* C12: when the keywords the lower-cased description contains belong to exactly
\* one category, categorize_transaction returns that category's id and at no
\* point of the call asks the LLM, also with use_ai true
C12_SingleCategorySkipsAi ==
    call.fn = "categorize_steps" =>
        LET Single(matched) ==
                Cardinality(matched) = 1 =>
                    /\ call.ai_invoked = 0
                    /\ call.pc \in {"start", "done"}
                    /\ call.pc = "done" =>
                          call.result =
                              Some(Ok(Some(CatalogId(
                                  quick_rules[CHOOSE i \in matched : TRUE].category))))
        IN  Single(MatchedRules(call.description))

\* a call with use_ai true has returned the category of its only keyword
C12_Witness ==
    /\ call.fn = "categorize_steps"
    /\ call.use_ai
    /\ call.pc = "done"
    /\ call.ai_invoked = 0
    /\ call.description = <<"N","E","T","F","L","I","X",".","C","O","M">>
    /\ call.result = Some(Ok(Some(4)))

\* C13: for a user who is not premium, add_transaction makes no LLM call, and a
\* description without keyword that it categorizes gets the id of 'other'
C13_NoAiWithoutPremium ==
    (response.op = "add_transaction" /\ response.status = 200) =>
        LET Stored(row, user) ==
                ~Get(user).is_premium =>
                    /\ response.ai_calls = 0
                    /\ (response.auto_categorized
                          /\ MatchedRules(Get(row.description)) = {}) =>
                           row.category_id = Some(CatalogId(<<"o","t","h","e","r">>))
        IN  Stored(transactions[Len(transactions)],
                   get_user_by_telegram_id(transactions[Len(transactions)].telegram_id))

\* a user who is not premium has added a transaction without keyword
C13_Witness ==
    /\ response.op = "add_transaction"
    /\ response.status = 200
    /\ response.auto_categorized
    /\ response.ai_calls = 0
    /\ ~users[11].is_premium
    /\ transactions[Len(transactions)].description = Some(<<"V","e","r","e","i","n"," ","B","e","i","t","r","a","g">>)
    /\ transactions[Len(transactions)].category_id = Some(7)

\* The LLM's answer neither is nor contains an allowed label, case and
\* surrounding blanks aside
IsProse(text) ==
    \A i \in 1..Len(valid_categories) : ~ContainsIgnoringCase(valid_categories[i], text)

RuleOrder ==
    <<<<"f","o","o","d">>, <<"t","r","a","n","s","p","o","r","t">>, <<"s","h","o","p","p","i","n","g">>, <<"e","n","t","e","r","t","a","i","n","m","e","n","t">>, <<"h","e","a","l","t","h">>, <<"b","i","l","l","s">>>>

\* The positions in RuleOrder of the categories with a keyword in the description
MatchedPositions(description) ==
    LET Positions(rules) ==
            {p \in 1..Len(RuleOrder) :
                \E i \in rules : quick_rules[i].category = RuleOrder[p]}
    IN  Positions(MatchedRules(description))

\* C15: _quick_categorize returns the first category, in the table's order, one
\* of whose keywords occurs in the lower-cased description, and None when no
\* keyword occurs
C15_FirstCategoryInTableOrder ==
    (call.fn = "quick_categorize" /\ ~IsNone(call.result)) =>
        LET First(matched) ==
                IF matched = {} THEN Get(call.result) = None
                ELSE \E p \in matched :
                        /\ \A q \in matched : p <= q
                        /\ Get(call.result) = Some(RuleOrder[p])
        IN  First(MatchedPositions(call.description))

\* a description with keywords of shopping and entertainment resolved to shopping
C15_Witness ==
    /\ call.fn = "quick_categorize"
    /\ call.description = <<"N","E","T","F","L","I","X"," ","a","m","a","z","o","n">>
    /\ MatchedPositions(call.description) = {3, 4}
    /\ call.result = Some(Some(<<"s","h","o","p","p","i","n","g">>))

C17_OneCentApartNotDuplicate ==
    (/\ call.fn = "is_duplicate"
     /\ ~IsNone(call.result)
     /\ call.existing_transactions # <<>>
     /\ \A i \in 1..Len(call.existing_transactions) :
           /\ call.existing_transactions[i].transaction_date = call.new_trans.date
           /\ Abs(call.existing_transactions[i].amount - call.new_trans.amount) = 1
           /\ call.existing_transactions[i].description =
                  Some(call.new_trans.description)) =>
        Get(call.result) = Ok(FALSE)

\* What detect_subscription answers for a transaction when the history holds no
\* other transaction than itself
DetectedAlone(row) ==
    detect_subscription(row.description, row.amount,
        <<[description |-> row.description, amount |-> row.amount,
           date |-> row.transaction_date]>>)

\* The category the quick rules and the default give a description
CategoryOfDescription(description) ==
    LET First(matched) ==
            IF matched = {} THEN CatalogId(<<"o","t","h","e","r">>)
            ELSE CatalogId(RuleOrder[CHOOSE p \in matched : \A q \in matched : p <= q])
    IN  First(MatchedPositions(description))

C19_RateLimiterFailsOpen ==
    (call.fn = "rate_limiter" /\ ~IsNone(call.last)) =>
        ((\/ ~Get(call.last).limiter.enabled
          \/ IsNone(Get(call.last).limiter.redis_client)
          \/ Get(call.last).outcome # "ok") =>
            /\ Get(call.last).allowed
            /\ Get(call.last).info = {})

\* the limiter is connected, the pipeline has raised, the request was allowed
C19_Witness ==
    /\ call.fn = "rate_limiter"
    /\ ~IsNone(call.last)
    /\ Get(call.last).limiter.enabled
    /\ ~IsNone(Get(call.last).limiter.redis_client)
    /\ Get(call.last).outcome = "error_written"
    /\ Get(call.last).allowed
    /\ Get(call.last).info = {}

\* C20: add_transaction creates an unconfirmed-subscription record only when
\* detect_subscription reported is_subscription true with a confidence strictly
\* greater than 0.7; a confidence of exactly 0.7 creates no record
C20_RecordOnlyAboveThreshold ==
    [][(response'.op = "add_transaction" /\ response'.status = 200) =>
          /\ (response'.create_attempted \/ subscriptions' # subscriptions) =>
                /\ ~IsNone(response'.detection)
                /\ Get(response'.detection).is_subscription
                /\ Get(response'.detection).confidence > 70
          /\ (~IsNone(response'.detection)
                /\ Get(response'.detection).confidence = 70) =>
                /\ ~response'.create_attempted
                /\ subscriptions' = subscriptions]_vars

\* a detection with confidence exactly 0.7: no record, no attempt to create one
C20_Witness ==
    /\ response.op = "add_transaction"
    /\ response.status = 200
    /\ ~IsNone(response.detection)
    /\ Get(response.detection).is_subscription
    /\ Get(response.detection).confidence = 70
    /\ ~response.create_attempted
    /\ subscriptions = <<>>

\* The rows of the user of the newest transaction that were stored before it
StoredBeforeNewest ==
    {j \in 1..(Len(transactions) - 1) :
        transactions[j].telegram_id = transactions[Len(transactions)].telegram_id}

\* C21: the history add_transaction passes to detect_subscription holds only the
\* user's transactions persisted before the new one, never the new one itself
C21_HistoryExcludesNewTransaction ==
    (response.op = "add_transaction" /\ response.status = 200
        /\ ~IsNone(response.history)) =>
        Len(Get(response.history)) <= Cardinality(StoredBeforeNewest)

\* C22: in an import the duplicate check of a row comes before its
\* categorization, and a row flagged as a duplicate is never categorized
C22_DuplicateCheckBeforeCategorization ==
    (response.op = "import_csv" /\ response.success) =>
        /\ Len(response.calls) = response.parsed
        /\ \A i \in 1..Len(response.calls) :
              /\ response.calls[i] # <<>>
              /\ response.calls[i][1] = "is_duplicate"
              /\ \A k \in 1..Len(response.calls[i]) :
                    response.calls[i][k] = "categorize_transaction" =>
                        /\ k > 1
                        /\ response.outcomes[i] # "duplicate"

\* an import with categorization: one row was a duplicate, another was categorized
C22_Witness ==
    /\ response.op = "import_csv"
    /\ response.success
    /\ response.auto_categorize
    /\ \E i, j \in 1..Len(response.calls) :
          /\ response.outcomes[i] = "duplicate"
          /\ response.calls[i] = <<"is_duplicate">>
          /\ response.calls[j] = <<"is_duplicate", "categorize_transaction">>

\* The tokens of a description: the maximal runs of its lower-cased characters
\* that are neither digits nor non-word characters
IsTokenChar(c) == IsWordChar(c) /\ c \notin Digits
Tokens(description) ==
    LET Runs(l) ==
            {SubSeq(l, a, b) : a \in 1..Len(l), b \in 1..Len(l)} \cap
            {SubSeq(l, ab[1], ab[2]) :
                ab \in {x \in (1..Len(l)) \X (1..Len(l)) :
                           /\ x[1] <= x[2]
                           /\ \A k \in x[1]..x[2] : IsTokenChar(l[k])
                           /\ x[1] = 1 \/ ~IsTokenChar(l[x[1] - 1])
                           /\ x[2] = Len(l) \/ ~IsTokenChar(l[x[2] + 1])}}
    IN  Runs([k \in 1..Len(description) |-> LowerChar(description[k])])

\* C23: _similar_descriptions is true exactly when both token sets are non-empty
\* and |intersection| / |union| is strictly greater than 0.6 (3 of 5 is not
\* similar), and the result is the same for both orders of the arguments
C23_SimilarExactlyAboveSixTenths ==
    (call.fn = "similar_descriptions" /\ ~IsNone(call.result)) =>
        LET Jaccard(t1, t2) ==
                /\ Get(call.result).forward =
                      (/\ t1 # {}
                       /\ t2 # {}
                       /\ 5 * Cardinality(t1 \cap t2) > 3 * Cardinality(t1 \cup t2))
                /\ Get(call.result).backward = Get(call.result).forward
        IN  Jaccard(Tokens(call.desc1), Tokens(call.desc2))

\* three shared tokens out of five: a ratio of exactly 0.6, not similar
C23_Witness ==
    /\ call.fn = "similar_descriptions"
    /\ call.desc1 = <<"V","e","r","e","i","n"," ","B","e","i","t","r","a","g"," ","S","p","o","r","t"," ","J","a","n","u","a","r">>
    /\ call.desc2 = <<"V","e","r","e","i","n"," ","B","e","i","t","r","a","g"," ","S","p","o","r","t"," ","F","e","b","r","u","a","r">>
    /\ Cardinality(Tokens(call.desc1) \cap Tokens(call.desc2)) = 3
    /\ Cardinality(Tokens(call.desc1) \cup Tokens(call.desc2)) = 5
    /\ call.result = Some([forward |-> FALSE, backward |-> FALSE])

\* C24: every parsed row of a batch is counted in exactly one of imported,
\* duplicates_skipped and errors, the three add up to the number of parsed
\* rows, and as many Transaction objects are added as rows are imported
C24_CountersPartitionRows ==
    (response.op = "import_csv" /\ response.success) =>
        /\ response.imported + response.duplicates_skipped + response.errors
              = response.parsed
        /\ response.duplicates_skipped = CountOutcome(response.outcomes, "duplicate")
        /\ \A i \in 1..Len(response.outcomes) :
              response.outcomes[i] \in {"imported", "duplicate", "error"}
        /\ Len(response.added) = response.imported

\* a batch of two rows: one skipped as a duplicate, one imported
C24_Witness ==
    /\ response.op = "import_csv"
    /\ response.success
    /\ response.parsed = 2
    /\ response.duplicates_skipped = 1
    /\ response.imported = 1
    /\ response.errors = 0
    /\ Len(response.added) = 1

\* A transaction stored before the import that has the row's user and date and
\* an amount within a cent of the row's
StoredLike(r, row) ==
    \E j \in 1..Len(StoredBefore(r)) :
        /\ transactions[j].telegram_id = r.telegram_id
        /\ transactions[j].transaction_date = row.date
        /\ Abs(transactions[j].amount - row.amount) <= 1

UnconfirmedRecords(user, name) ==
    {i \in 1..Len(subscriptions) :
        /\ ~subscriptions[i].confirmed
        /\ subscriptions[i].name = name
        /\ \/ "user_id" \in DOMAIN subscriptions[i] /\ subscriptions[i].user_id = user.id
           \/ "telegram_id" \in DOMAIN subscriptions[i]
                 /\ subscriptions[i].telegram_id = user.telegram_id}

WindowConfig == get_config(WindowRequest.path)

\* 1 when the latest check, made in window n of the given length, let its
\* request through without Redis having counted it
AllowedUncounted(length, n) ==
    IF /\ ~IsNone(call.last)
       /\ Get(call.last).allowed
       /\ Get(call.last).outcome # "ok"
       /\ Get(call.last).current_time \div length = n
    THEN 1 ELSE 0

\* C27 (as stated): in every minute window at most requests_per_minute requests
\* of the client are allowed, and in every hour window at most
\* requests_per_hour, the requests let through during a Redis error included
C27_AllowedAtMostLimit ==
    /\ \A n \in DOMAIN call.allowed_minute :
          call.allowed_minute[n] + AllowedUncounted(60, n)
              <= WindowConfig.requests_per_minute
    /\ \A n \in DOMAIN call.allowed_hour :
          call.allowed_hour[n] + AllowedUncounted(3600, n)
              <= WindowConfig.requests_per_hour

\* C27 (amended): of the requests whose pipeline Redis executed, at most
\* requests_per_minute are allowed in a minute window and at most
\* requests_per_hour in an hour window, in whatever order the pipelines run
C27_CountedAllowedAtMostLimit ==
    /\ \A n \in DOMAIN call.allowed_minute :
          call.allowed_minute[n] <= WindowConfig.requests_per_minute
    /\ \A n \in DOMAIN call.allowed_hour :
          call.allowed_hour[n] <= WindowConfig.requests_per_hour

\* the hour's limit is used up over four full minutes, and a request of the
\* fifth minute, the first of its minute, is refused with the hourly limit
C27_Witness ==
    /\ ~IsNone(call.last)
    /\ ~Get(call.last).allowed
    /\ <<"limit", WindowConfig.requests_per_hour>> \in Get(call.last).info
    /\ call.allowed_hour[Get(call.last).current_time \div 3600]
          = WindowConfig.requests_per_hour
    /\ call.store[<<get_identifier(WindowRequest),
                    Get(call.last).current_time \div 60>>] = 1
    /\ \E n \in DOMAIN call.allowed_minute :
          call.allowed_minute[n] = WindowConfig.requests_per_minute

\* a premium user has a PayPal subscription id
PremiumHasSubscriptionId ==
    \A t \in DOMAIN users :
        users[t].is_premium => ~IsNone(users[t].paypal_subscription_id)

C29_FailedCancelChangesNothing ==
    [][response'.op = "cancel_subscription" =>
          /\ (\/ response'.telegram_id \notin DOMAIN users
              \/ IsNone(users[response'.telegram_id].paypal_subscription_id)
              \/ response'.cancel_result # "success") =>
                 /\ response'.status \in {400, 404, 500}
                 /\ users' = users
          /\ \A t \in DOMAIN users :
                users'[t] # users[t] =>
                    /\ t = response'.telegram_id
                    /\ response'.cancel_result = "success"
                    /\ response'.status = 200
                    /\ users'[t] = [users[t] EXCEPT !.is_premium = FALSE]]_vars

\* PayPal refused the cancellation of a premium user: the endpoint answered
\* 500 and the user is still premium with the subscription id
C29_Witness ==
    /\ response.op = "cancel_subscription"
    /\ response.status = 500
    /\ response.cancel_result = "failure"
    /\ users[response.telegram_id].is_premium
    /\ ~IsNone(users[response.telegram_id].paypal_subscription_id)

\* C30: a sync that follows a successful sync of the same user against the
\* same PayPal transaction list adds no Transaction
C30_SecondSyncAddsNothing ==
    [][(/\ response.op = "sync_paypal_data"
        /\ response.status = 200
        /\ response.fetched = "ok"
        /\ response'.op = "sync_paypal_data"
        /\ response'.status = 200
        /\ response'.fetched = "ok"
        /\ response'.telegram_id = response.telegram_id
        /\ response'.transaction_details = response.transaction_details) =>
            /\ response'.transactions_count = 0
            /\ transactions' = transactions]_vars
=============================================================================
